---- MODULE Spec2Model ----
(***************************************************************************)
(* Model of luma_ai_mcp_server/server.py: the HTTP gateway                 *)
(* (_make_luma_request) and the ten tool handlers.                         *)
(*                                                                         *)
(* Python values are tagged records.  A Python str is a sequence of text   *)
(* atoms (its pieces, in order); the `in` test on strings is "occurs as a  *)
(* contiguous run of atoms", f-string formatting is concatenation.         *)
(***************************************************************************)
EXTENDS Integers, Sequences, FiniteSets, TLC

(***************************************************************************)
(* Python values                                                           *)
(***************************************************************************)
None == [t |-> "none"]
S(a) == [t |-> "str", s |-> a]
N(n) == [t |-> "num", n |-> n]
B(b) == [t |-> "bool", b |-> b]
D(f) == [t |-> "dict", d |-> f]
L(q) == [t |-> "list", l |-> q]

EmptyDict == <<>>

\* bool(v): the truth value Python gives a value in `if v` / `not v` / `a or b`
Truthy(v) ==
    CASE v.t = "none" -> FALSE
      [] v.t = "str"  -> v.s # <<>>
      [] v.t = "num"  -> v.n # 0
      [] v.t = "bool" -> v.b
      [] v.t = "dict" -> DOMAIN v.d # {}
      [] v.t = "list" -> v.l # <<>>

\* a or b
Or(a, b) == IF Truthy(a) THEN a ELSE b

\* type(v).__name__
TypeName(v) ==
    CASE v.t = "none" -> "NoneType"
      [] v.t = "str"  -> "str"
      [] v.t = "num"  -> "int"
      [] v.t = "bool" -> "bool"
      [] v.t = "dict" -> "dict"
      [] v.t = "list" -> "list"

\* d.get(k, default) on the mapping part of a dict
Get(d, k, default) == IF k \in DOMAIN d THEN d[k] ELSE default

\* the order in which the keys of a mapping are written out (every key the model uses)
KeyOrder ==
    << "id", "state", "failure_reason", "generation_type", "created_at", "model",
       "resolution", "prompt", "negative_prompt", "duration", "aspect_ratio", "loop",
       "callback_url", "keyframes", "frame0", "frame1", "frame2", "type", "url", "request",
       "assets", "video", "image", "progress_video", "audio", "detail",
       "raw_response", "generations", "has_more", "count", "data", "results",
       "items", "motions", "camera_motions", "name", "credit_balance",
       "credits_available", "credits_used", "credits_total", "limit", "offset",
       "generation_id", "message" >>

KeySeq(dom) == SelectSeq(KeyOrder, LAMBDA k : k \in dom)

RECURSIVE Repr(_)
RECURSIVE ReprItems(_, _)
RECURSIVE ReprElems(_)

\* repr(v): how a value nested in a dict or list is written by str()
Repr(v) ==
    CASE v.t = "none" -> <<"None">>
      [] v.t = "str"  -> <<"'">> \o v.s \o <<"'">>
      [] v.t = "num"  -> <<ToString(v.n)>>
      [] v.t = "bool" -> IF v.b THEN <<"True">> ELSE <<"False">>
      [] v.t = "dict" -> <<"{">> \o ReprItems(v.d, KeySeq(DOMAIN v.d)) \o <<"}">>
      [] v.t = "list" -> <<"[">> \o ReprElems(v.l) \o <<"]">>

ReprItems(d, ks) ==
    IF ks = <<>> THEN <<>>
    ELSE <<"'", Head(ks), "'", ": ">> \o Repr(d[Head(ks)])
         \o (IF Tail(ks) = <<>> THEN <<>> ELSE <<", ">> \o ReprItems(d, Tail(ks)))

ReprElems(q) ==
    IF q = <<>> THEN <<>>
    ELSE Repr(Head(q)) \o (IF Tail(q) = <<>> THEN <<>> ELSE <<", ">> \o ReprElems(Tail(q)))

\* str(v), as used by f"{v}"
Str(v) == IF v.t = "str" THEN v.s ELSE Repr(v)

\* phrase in text
Contains(text, phrase) ==
    \E i \in 1..(Len(text) - Len(phrase) + 1) :
        SubSeq(text, i, i + Len(phrase) - 1) = phrase

RECURSIVE JoinWith(_, _)
\* sep.join(parts)
JoinWith(sep, parts) ==
    IF parts = <<>> THEN <<>>
    ELSE IF Len(parts) = 1 THEN Head(parts)
    ELSE Head(parts) \o sep \o JoinWith(sep, Tail(parts))

(***************************************************************************)
(* Exceptions and call outcomes                                            *)
(***************************************************************************)
Raise(cls, msg) == [kind |-> "raise", cls |-> cls, msg |-> msg, val |-> None]
Return(v) == [kind |-> "return", cls |-> "", msg |-> <<>>, val |-> v]

SAME_RESOLUTION == <<"same resolution as the original">>
HTTP_ERROR(status) == <<"HTTP error ", ToString(status)>>

(***************************************************************************)
(* The upstream: what client.request can do                                *)
(***************************************************************************)
\* body forms: "empty" (no content), "json" (text decodes to val), "text" (text does not decode)
JsonText(v) == IF v.t = "none" THEN <<"null">> ELSE Repr(v)
EmptyBody == [form |-> "empty", text |-> <<>>, val |-> None]
JsonBody(v) == [form |-> "json", text |-> JsonText(v), val |-> v]
TextBody(txt) == [form |-> "text", text |-> txt, val |-> None]

NoResponse == [status |-> 0, ctype |-> <<>>, body |-> EmptyBody]
Response(r) == [k |-> "response", resp |-> r, cls |-> "", msg |-> <<>>]
\* httpx.RequestError (transport fault) and any other exception out of client.request
RequestError(msg) == [k |-> "request_error", resp |-> NoResponse, cls |-> "RequestError", msg |-> msg]
OtherError(cls, msg) == [k |-> "error", resp |-> NoResponse, cls |-> cls, msg |-> msg]

(***************************************************************************)
(* _make_luma_request                                                      *)
(***************************************************************************)
MISSING_KEY == <<"LUMA_API_KEY environment variable or --api-key option is required">>
BASE_URL == <<"https://api.lumalabs.ai/dream-machine/v1">>
REQUEST_TIMEOUT == 30

ResolveKey_EnvFirst(api_key, env) == Or(env, api_key)
\* api_key = api_key or os.getenv("LUMA_API_KEY")
ResolveKey(api_key, env) == Or(api_key, env)

Headers(key) ==
    [ Authorization |-> <<"Bearer ">> \o Str(key),
      ContentType   |-> <<"application/json">>,
      Accept        |-> <<"application/json">> ]

NoRequest == [method |-> "", url |-> <<>>, headers |-> Headers(S(<<>>)), json |-> None,
              params |-> None, timeout |-> 0]

HttpRequest(call, key) ==
    [ method  |-> call.method,
      url     |-> BASE_URL \o <<"/">> \o call.endpoint,
      headers |-> Headers(key),
      json    |-> call.json,
      params  |-> call.params,
      timeout |-> REQUEST_TIMEOUT ]

StartsLikeJson(text) == text # <<>> /\ Head(text) \in {"{", "["}
RawResponse(text) == D([raw_response |-> S(text)])

ParseBody_ContentTypeOnly(resp) ==
    LET decoded == IF resp.body.form = "json" THEN resp.body.val
                   ELSE RawResponse(resp.body.text)
    IN  IF Contains(resp.ctype, <<"application/json">>) THEN decoded
        ELSE RawResponse(resp.body.text)

\* the inner try of the gateway: json_data from the response
ParseBody(resp) ==
    LET decoded == IF resp.body.form = "json" THEN resp.body.val
                   ELSE RawResponse(resp.body.text)
    IN  IF Contains(resp.ctype, <<"application/json">>) THEN decoded
        ELSE IF StartsLikeJson(resp.body.text) THEN decoded
        ELSE RawResponse(resp.body.text)

\* what the gateway does with the outcome of client.request
GatewayOutcome(net) ==
    CASE net.k = "request_error" -> Raise("ValueError", <<"Network error: ">> \o net.msg)
      [] net.k = "error" -> Raise(net.cls, net.msg)
      [] net.k = "response" ->
            IF net.resp.body.form = "empty" THEN Return(D(EmptyDict))
            ELSE LET json_data == ParseBody(net.resp) IN
                 IF net.resp.status >= 400
                 THEN Raise("ValueError",
                            HTTP_ERROR(net.resp.status)
                            \o (IF Truthy(json_data) THEN <<": ">> \o Str(json_data) ELSE <<>>))
                 ELSE Return(json_data)

ClientAfterFinally_Leak(client) == client
\* finally: if client: await client.aclose()
ClientAfterFinally(client) == IF client = "open" THEN "closed" ELSE client

(***************************************************************************)
(* Handlers: the part before the gateway call                              *)
(***************************************************************************)
Call(method, endpoint, json, params) ==
    [kind |-> "call", cls |-> "", msg |-> <<>>, method |-> method, endpoint |-> endpoint,
     json |-> json, params |-> params]
Fail(cls, msg) ==
    [kind |-> "raise", cls |-> cls, msg |-> msg, method |-> "", endpoint |-> <<>>,
     json |-> None, params |-> None]

REQUIRED == <<" parameter is required">>

ping_call(parameters) == Call("GET", <<"ping">>, None, None)

get_generation_call(parameters) ==
    LET generation_id == Get(parameters, "generation_id", None) IN
    IF ~Truthy(generation_id) THEN Fail("ValueError", <<"generation_id">> \o REQUIRED)
    ELSE Call("GET", <<"generations/">> \o Str(generation_id), None, None)

list_generations_call(parameters) ==
    LET limit  == Get(parameters, "limit", N(10))
        offset == Get(parameters, "offset", N(0))
    IN  Call("GET", <<"generations">>, None, D([limit |-> limit, offset |-> offset]))

delete_generation_call(parameters) ==
    LET generation_id == Get(parameters, "generation_id", None) IN
    IF ~Truthy(generation_id) THEN Fail("ValueError", <<"generation_id">> \o REQUIRED)
    ELSE Call("DELETE", <<"generations/">> \o Str(generation_id), None, None)

valid_resolutions == <<S(<<"540p">>), S(<<"720p">>), S(<<"1080p">>), S(<<"4k">>)>>
InSeq(v, q) == \E i \in 1..Len(q) : q[i] = v

upscale_generation_call_AnyResolution(parameters) ==
    LET generation_id == Get(parameters, "generation_id", None)
        resolution    == Get(parameters, "resolution", None)
    IN  IF ~Truthy(generation_id) THEN Fail("ValueError", <<"generation_id">> \o REQUIRED)
        ELSE IF ~Truthy(resolution)
             THEN Fail("ValueError", <<"resolution">> \o REQUIRED \o <<" for upscaling">>)
        ELSE Call("POST", <<"generations/">> \o Str(generation_id) \o <<"/upscale">>,
                  D([resolution |-> resolution]), None)

upscale_generation_call(parameters) ==
    LET generation_id == Get(parameters, "generation_id", None)
        resolution    == Get(parameters, "resolution", None)
    IN  IF ~Truthy(generation_id) THEN Fail("ValueError", <<"generation_id">> \o REQUIRED)
        ELSE IF ~Truthy(resolution)
             THEN Fail("ValueError", <<"resolution">> \o REQUIRED \o <<" for upscaling">>)
        ELSE IF ~InSeq(resolution, valid_resolutions)
             THEN Fail("ValueError", <<"Invalid resolution: ">> \o Str(resolution)
                                     \o <<". Must be one of ", "540p, 720p, 1080p, 4k">>)
        ELSE Call("POST", <<"generations/">> \o Str(generation_id) \o <<"/upscale">>,
                  D([resolution |-> resolution]), None)

add_audio_call_NoPromptCheck(parameters) ==
    LET generation_id == Get(parameters, "generation_id", None)
        prompt        == Get(parameters, "prompt", None)
    IN  IF ~Truthy(generation_id) THEN Fail("ValueError", <<"generation_id">> \o REQUIRED)
        ELSE Call("POST", <<"generations/">> \o Str(generation_id) \o <<"/audio">>,
                  D([prompt |-> prompt]), None)

add_audio_call(parameters) ==
    LET generation_id == Get(parameters, "generation_id", None)
        prompt        == Get(parameters, "prompt", None)
        d0 == [prompt |-> prompt]
        d1 == IF "negative_prompt" \in DOMAIN parameters /\ Truthy(parameters["negative_prompt"])
              THEN d0 @@ [negative_prompt |-> parameters["negative_prompt"]] ELSE d0
        d2 == IF "callback_url" \in DOMAIN parameters /\ Truthy(parameters["callback_url"])
              THEN d1 @@ [callback_url |-> parameters["callback_url"]] ELSE d1
    IN  IF ~Truthy(generation_id) THEN Fail("ValueError", <<"generation_id">> \o REQUIRED)
        ELSE IF ~Truthy(prompt)
             THEN Fail("ValueError", <<"prompt">> \o REQUIRED \o <<" for audio generation">>)
        ELSE Call("POST", <<"generations/">> \o Str(generation_id) \o <<"/audio">>, D(d2), None)

image_models == <<S(<<"photon-1">>), S(<<"photon-flash-1">>)>>

generate_image_call_NoCoercion(parameters) ==
    LET prompt == Get(parameters, "prompt", None)
        model  == Get(parameters, "model", S(<<"photon-1">>))
    IN  IF ~Truthy(prompt) THEN Fail("ValueError", <<"prompt">> \o REQUIRED)
        ELSE Call("POST", <<"generations/image">>, D([prompt |-> prompt, model |-> model]), None)

generate_image_call(parameters) ==
    LET prompt == Get(parameters, "prompt", None)
        model0 == Get(parameters, "model", S(<<"photon-1">>))
        model  == IF InSeq(model0, image_models) THEN model0 ELSE S(<<"photon-1">>)
    IN  IF ~Truthy(prompt) THEN Fail("ValueError", <<"prompt">> \o REQUIRED)
        ELSE Call("POST", <<"generations/image">>, D([prompt |-> prompt, model |-> model]), None)

get_credits_call(parameters) == Call("GET", <<"credits">>, None, None)

get_camera_motions_call(parameters) ==
    Call("GET", <<"generations/camera_motion/list">>, None, None)

optional_params == <<"resolution", "duration", "aspect_ratio", "loop", "callback_url">>

RECURSIVE CopyOptional_SkipsFalsy(_, _, _)
CopyOptional_SkipsFalsy(parameters, data, ks) ==
    IF ks = <<>> THEN data
    ELSE LET k == Head(ks)
             d2 == IF k \in DOMAIN parameters /\ Truthy(parameters[k])
                   THEN data @@ (k :> parameters[k]) ELSE data
         IN  CopyOptional_SkipsFalsy(parameters, d2, Tail(ks))

RECURSIVE CopyOptional(_, _, _)
\* for param in optional_params: if param in parameters and parameters[param] is not None
CopyOptional(parameters, data, ks) ==
    IF ks = <<>> THEN data
    ELSE LET k == Head(ks)
             d2 == IF k \in DOMAIN parameters /\ parameters[k] # None
                   THEN data @@ (k :> parameters[k]) ELSE data
         IN  CopyOptional(parameters, d2, Tail(ks))

NoAttributeGet(v) == <<"'", TypeName(v), "' object has no attribute 'get'">>

create_generation_call_ForwardsAll(parameters) ==
    LET prompt == Get(parameters, "prompt", None)
        data0  == [prompt |-> prompt, model |-> Get(parameters, "model", S(<<"ray-2">>))]
        data1  == data0 @@ parameters
        has_kf == "keyframes" \in DOMAIN parameters /\ Truthy(parameters["keyframes"])
        keyframes == parameters["keyframes"]
    IN  IF ~Truthy(prompt) THEN Fail("ValueError", <<"prompt">> \o REQUIRED)
        ELSE IF ~has_kf THEN Call("POST", <<"generations">>, D(data1), None)
        ELSE IF keyframes.t # "dict" THEN Fail("ValueError", <<"keyframes must be an object">>)
        ELSE IF ~("frame0" \in DOMAIN keyframes.d \/ "frame1" \in DOMAIN keyframes.d)
             THEN Fail("ValueError", <<"keyframes must contain frame0 or frame1">>)
        ELSE IF "frame0" \in DOMAIN keyframes.d /\ keyframes.d["frame0"].t # "dict"
             THEN Fail("AttributeError", NoAttributeGet(keyframes.d["frame0"]))
        ELSE IF "frame1" \in DOMAIN keyframes.d /\ keyframes.d["frame1"].t # "dict"
             THEN Fail("AttributeError", NoAttributeGet(keyframes.d["frame1"]))
        ELSE Call("POST", <<"generations">>, D(data1 @@ [keyframes |-> keyframes]), None)

create_generation_call_RejectsDuration(parameters) ==
    LET prompt == Get(parameters, "prompt", None)
        data0  == [prompt |-> prompt, model |-> Get(parameters, "model", S(<<"ray-2">>))]
        data1  == CopyOptional(parameters, data0, optional_params)
        has_kf == "keyframes" \in DOMAIN parameters /\ Truthy(parameters["keyframes"])
        keyframes == parameters["keyframes"]
    IN  IF ~Truthy(prompt) THEN Fail("ValueError", <<"prompt">> \o REQUIRED)
        ELSE IF "duration" \in DOMAIN parameters /\ parameters["duration"] # None
                /\ ~InSeq(parameters["duration"], <<S(<<"5s">>), S(<<"9s">>)>>)
             THEN Fail("ValueError", <<"Unsupported duration value: ">>
                                     \o Str(parameters["duration"]))
        ELSE IF ~has_kf THEN Call("POST", <<"generations">>, D(data1), None)
        ELSE IF keyframes.t # "dict" THEN Fail("ValueError", <<"keyframes must be an object">>)
        ELSE IF ~("frame0" \in DOMAIN keyframes.d \/ "frame1" \in DOMAIN keyframes.d)
             THEN Fail("ValueError", <<"keyframes must contain frame0 or frame1">>)
        ELSE IF "frame0" \in DOMAIN keyframes.d /\ keyframes.d["frame0"].t # "dict"
             THEN Fail("AttributeError", NoAttributeGet(keyframes.d["frame0"]))
        ELSE IF "frame1" \in DOMAIN keyframes.d /\ keyframes.d["frame1"].t # "dict"
             THEN Fail("AttributeError", NoAttributeGet(keyframes.d["frame1"]))
        ELSE Call("POST", <<"generations">>, D(data1 @@ [keyframes |-> keyframes]), None)

create_generation_call(parameters) ==
    LET prompt == Get(parameters, "prompt", None)
        data0  == [prompt |-> prompt, model |-> Get(parameters, "model", S(<<"ray-2">>))]
        data1  == CopyOptional(parameters, data0, optional_params)
        has_kf == "keyframes" \in DOMAIN parameters /\ Truthy(parameters["keyframes"])
        keyframes == parameters["keyframes"]
    IN  IF ~Truthy(prompt) THEN Fail("ValueError", <<"prompt">> \o REQUIRED)
        ELSE IF ~has_kf THEN Call("POST", <<"generations">>, D(data1), None)
        ELSE IF keyframes.t # "dict" THEN Fail("ValueError", <<"keyframes must be an object">>)
        ELSE IF ~("frame0" \in DOMAIN keyframes.d \/ "frame1" \in DOMAIN keyframes.d)
             THEN Fail("ValueError", <<"keyframes must contain frame0 or frame1">>)
        ELSE IF "frame0" \in DOMAIN keyframes.d /\ keyframes.d["frame0"].t # "dict"
             THEN Fail("AttributeError", NoAttributeGet(keyframes.d["frame0"]))
        ELSE IF "frame1" \in DOMAIN keyframes.d /\ keyframes.d["frame1"].t # "dict"
             THEN Fail("AttributeError", NoAttributeGet(keyframes.d["frame1"]))
        ELSE Call("POST", <<"generations">>, D(data1 @@ [keyframes |-> keyframes]), None)

(***************************************************************************)
(* Handlers: rendering the gateway's return value                          *)
(***************************************************************************)
NL == <<"\n">>
Lines(parts) == JoinWith(NL, parts)

ping_render(parameters, data, result) ==
    <<"Luma API is available and responding">>
    \o (IF Truthy(result) THEN <<": ">> \o Str(result) ELSE <<>>)

KeyframeInfo_Frame0Ignored(kf) ==
    LET f0 == IF "frame0" \in DOMAIN kf
              THEN LET ty == Get(kf["frame0"].d, "type", None) IN
                   IF ty = S(<<"image">>) THEN << <<"starting from an image">> >>
                   ELSE IF ty = S(<<"generation">>) THEN << <<"extending an existing video">> >>
                   ELSE <<>>
              ELSE <<>>
        f1 == IF "frame1" \in DOMAIN kf
              THEN LET ty == Get(kf["frame1"].d, "type", None) IN
                   IF ty = S(<<"image">>) THEN << <<"ending with an image">> >>
                   ELSE IF ty = S(<<"generation">>)
                        THEN << <<"interpolating between videos">> >>
                   ELSE <<>>
              ELSE <<>>
    IN  f0 \o f1

\* keyframe_info of the advanced rendering
KeyframeInfo(kf) ==
    LET f0 == IF "frame0" \in DOMAIN kf
              THEN LET ty == Get(kf["frame0"].d, "type", None) IN
                   IF ty = S(<<"image">>) THEN << <<"starting from an image">> >>
                   ELSE IF ty = S(<<"generation">>) THEN << <<"extending an existing video">> >>
                   ELSE <<>>
              ELSE <<>>
        f1 == IF "frame1" \in DOMAIN kf
              THEN LET ty == Get(kf["frame1"].d, "type", None) IN
                   IF ty = S(<<"image">>) THEN << <<"ending with an image">> >>
                   ELSE IF ty = S(<<"generation">>)
                        THEN IF "frame0" \in DOMAIN kf
                             THEN << <<"interpolating between videos">> >>
                             ELSE << <<"reverse extending to an existing video">> >>
                   ELSE <<>>
              ELSE <<>>
    IN  f0 \o f1

create_generation_render(parameters, data, result) ==
    IF result.t # "dict"
    THEN <<"Error: Unexpected response format from Luma API. ", "Got ", TypeName(result),
           " instead of dict.">>
    ELSE LET r == result.d
             prompt == Get(parameters, "prompt", None)
             generation_id == Get(r, "id", S(<<"Unknown">>))
             state == Get(r, "state", S(<<"Processing">>))
             generation_type == Get(r, "generation_type", S(<<"video">>))
             created_at == Get(r, "created_at", S(<<"Unknown">>))
             model == Get(r, "model", Get(parameters, "model", S(<<"ray-2">>)))
             has_keyframes == "keyframes" \in DOMAIN data.d /\ Truthy(data.d["keyframes"])
             rest == << <<"State: ">> \o Str(state),
                        <<"Created at: ">> \o Str(created_at),
                        <<"Model: ">> \o Str(model),
                        <<"Prompt: ">> \o Str(prompt) >>
         IN  IF generation_type = S(<<"image">>)
             THEN Lines(<< <<"Created image generation with ID: ">> \o Str(generation_id) >> \o rest)
             ELSE IF has_keyframes
             THEN Lines(<< <<"Created advanced generation (">>
                           \o JoinWith(<<", ">>, KeyframeInfo(data.d["keyframes"].d))
                           \o <<") with ID: ">> \o Str(generation_id) >> \o rest)
             ELSE Lines(<< <<"Created text-to-video generation with ID: ">>
                           \o Str(generation_id) >> \o rest)

FailureSuffix_AnyState(r, state) ==
    LET failure_reason == Get(r, "failure_reason", S(<<>>)) IN
    IF Truthy(failure_reason)
    THEN <<" (Reason: ">> \o Str(failure_reason) \o <<")">>
    ELSE <<>>

\* state_info: the state, with the failure reason when the state is "failed"
FailureSuffix(r, state) ==
    LET failure_reason == Get(r, "failure_reason", S(<<>>)) IN
    IF state = S(<<"failed">>) /\ Truthy(failure_reason)
    THEN <<" (Reason: ">> \o Str(failure_reason) \o <<")">>
    ELSE <<>>

\* request_data / has_keyframes / type_display shared by get_generation and list_generations
RequestData(r) ==
    LET rd == Get(r, "request", D(EmptyDict)) IN IF rd.t = "dict" THEN rd.d ELSE EmptyDict

TypeDisplay(r) ==
    LET keyframes == Get(RequestData(r), "keyframes", None)
        has_keyframes == keyframes.t = "dict" /\ Truthy(keyframes)
    IN  IF Get(r, "generation_type", S(<<"video">>)) = S(<<"image">>) THEN <<"Image">>
        ELSE IF has_keyframes THEN <<"Advanced">> ELSE <<"Text-to-video">>

AssetsOf(r) ==
    LET a == Get(r, "assets", D(EmptyDict)) IN IF a.t = "dict" THEN a.d ELSE EmptyDict

\* the video asset lines shared by get_generation, upscale_generation and add_audio
VideoAssetLines(assets) ==
    (IF "video" \in DOMAIN assets THEN << <<"Video URL: ">> \o Str(assets["video"]) >> ELSE <<>>)
    \o (IF "progress_video" \in DOMAIN assets
        THEN << <<"Progress video: ">> \o Str(assets["progress_video"]) >> ELSE <<>>)
    \o (IF "image" \in DOMAIN assets
        THEN << <<"Thumbnail: ">> \o Str(assets["image"]) >> ELSE <<>>)

get_generation_render(parameters, data, result) ==
    IF result.t # "dict"
    THEN <<"Error: Unexpected response format from Luma API. ", "Got ", TypeName(result),
           " instead of dict.">>
    ELSE LET r == result.d
             generation_id == Get(parameters, "generation_id", None)
             result_id == Get(r, "id", generation_id)
             state == Get(r, "state", S(<<"Unknown">>))
             created_at == Get(r, "created_at", S(<<"Unknown">>))
             generation_type == Get(r, "generation_type", S(<<"video">>))
             model == Get(r, "model", S(<<"Unknown">>))
             prompt == Get(RequestData(r), "prompt", S(<<"Unknown">>))
             assets == AssetsOf(r)
             asset_lines ==
                IF generation_type = S(<<"image">>)
                THEN IF "image" \in DOMAIN assets
                     THEN << <<"Image URL: ">> \o Str(assets["image"]) >> ELSE <<>>
                ELSE VideoAssetLines(assets)
             assets_info == IF asset_lines # <<>> THEN Lines(asset_lines)
                            ELSE <<"No assets available yet">>
         IN  Lines(<< <<"Generation ID: ">> \o Str(result_id),
                      <<"Type: ">> \o TypeDisplay(r),
                      <<"State: ">> \o Str(state) \o FailureSuffix(r, state),
                      <<"Created at: ">> \o Str(created_at),
                      <<"Model: ">> \o Str(model),
                      <<"Prompt: ">> \o Str(prompt),
                      assets_info >>)

\* one entry of the listing
GenerationEntry(gen) ==
    LET generation_id == Get(gen, "id", S(<<"Unknown ID">>))
        state == Get(gen, "state", S(<<"Unknown state">>))
        created_at == Get(gen, "created_at", S(<<"Unknown date">>))
        is_image == Get(gen, "generation_type", S(<<"video">>)) = S(<<"image">>)
        prompt == Get(RequestData(gen), "prompt", S(<<"Unknown prompt">>))
        assets == AssetsOf(gen)
        url == IF is_image THEN Get(assets, "image", S(<<"Not available yet">>))
               ELSE Get(assets, "video", S(<<"Not available yet">>))
        url_label == IF is_image THEN <<"Image URL">> ELSE <<"Video URL">>
    IN  <<"ID: ">> \o Str(generation_id) \o <<"\n", "  Type: ">> \o TypeDisplay(gen)
        \o <<"\n", "  State: ">> \o Str(state)
        \o <<"\n", "  Created at: ">> \o Str(created_at)
        \o <<"\n", "  Prompt: ">> \o Str(prompt)
        \o <<"\n", "  ">> \o url_label \o <<": ">> \o Str(url) \o <<"\n">>

RECURSIVE GenerationEntries(_)
\* for gen in generations_list: non-dict entries are skipped
GenerationEntries(q) ==
    IF q = <<>> THEN <<>>
    ELSE (IF Head(q).t = "dict" THEN << GenerationEntry(Head(q).d) >> ELSE <<>>)
         \o GenerationEntries(Tail(q))

ListResolve_CountsObjects(result) ==
    LET r == result.d
        Early(txt) == [early |-> TRUE, text |-> txt, list |-> <<>>, pagination |-> <<>>]
        Found(q, pg) == [early |-> FALSE, text |-> <<>>, list |-> q, pagination |-> pg]
    IN  IF ~Truthy(result) THEN Early(<<"No generations found">>)
        ELSE IF result.t = "dict"
        THEN IF "generations" \in DOMAIN r /\ r["generations"].t = "list"
             THEN LET generations_list == r["generations"].l
                      has_more == Get(r, "has_more", B(FALSE))
                      count == Get(r, "count", N(Len(generations_list)))
                  IN  Found(generations_list,
                            << <<"Showing ",
                                 ToString(Len(SelectSeq(generations_list,
                                                        LAMBDA g : g.t = "dict"))), " of ">>
                               \o Str(count) \o <<" generations">>
                               \o (IF Truthy(has_more) THEN <<" (more available)">> ELSE <<>>) >>)
             ELSE IF "id" \in DOMAIN r /\ "state" \in DOMAIN r THEN Found(<<result>>, <<>>)
             ELSE LET fields == SelectSeq(<<"data", "results", "items">>,
                                          LAMBDA f : f \in DOMAIN r /\ r[f].t = "list")
                      generations_list == IF fields = <<>> THEN <<>> ELSE r[Head(fields)].l
                  IN  IF generations_list = <<>>
                      THEN Early(<<"Response format from Luma API doesn't contain generations: ">>
                                 \o Str(result))
                      ELSE Found(generations_list, <<>>)
        ELSE IF result.t = "list" THEN Found(result.l, <<>>)
        ELSE Early(<<"Error: Unexpected response format from Luma API. ", "Got ",
                     TypeName(result), " instead of object with generations.">>)

ListResolve_FirstNonEmpty(result) ==
    LET r == result.d
        Early(txt) == [early |-> TRUE, text |-> txt, list |-> <<>>, pagination |-> <<>>]
        Found(q, pg) == [early |-> FALSE, text |-> <<>>, list |-> q, pagination |-> pg]
    IN  IF ~Truthy(result) THEN Early(<<"No generations found">>)
        ELSE IF result.t = "dict"
        THEN IF "generations" \in DOMAIN r /\ r["generations"].t = "list"
             THEN LET generations_list == r["generations"].l
                      has_more == Get(r, "has_more", B(FALSE))
                      count == Get(r, "count", N(Len(generations_list)))
                  IN  Found(generations_list,
                            << <<"Showing ", ToString(Len(generations_list)), " of ">>
                               \o Str(count) \o <<" generations">>
                               \o (IF Truthy(has_more) THEN <<" (more available)">> ELSE <<>>) >>)
             ELSE IF "id" \in DOMAIN r /\ "state" \in DOMAIN r THEN Found(<<result>>, <<>>)
             ELSE LET fields == SelectSeq(<<"data", "results", "items">>,
                                          LAMBDA f : f \in DOMAIN r /\ r[f].t = "list"
                                                     /\ r[f].l # <<>>)
                      generations_list == IF fields = <<>> THEN <<>> ELSE r[Head(fields)].l
                  IN  IF generations_list = <<>>
                      THEN Early(<<"Response format from Luma API doesn't contain generations: ">>
                                 \o Str(result))
                      ELSE Found(generations_list, <<>>)
        ELSE IF result.t = "list" THEN Found(result.l, <<>>)
        ELSE Early(<<"Error: Unexpected response format from Luma API. ", "Got ",
                     TypeName(result), " instead of object with generations.">>)

ListResolve_NoSingleObject(result) ==
    LET r == result.d
        Early(txt) == [early |-> TRUE, text |-> txt, list |-> <<>>, pagination |-> <<>>]
        Found(q, pg) == [early |-> FALSE, text |-> <<>>, list |-> q, pagination |-> pg]
    IN  IF ~Truthy(result) THEN Early(<<"No generations found">>)
        ELSE IF result.t = "dict"
        THEN IF "generations" \in DOMAIN r /\ r["generations"].t = "list"
             THEN LET generations_list == r["generations"].l
                      has_more == Get(r, "has_more", B(FALSE))
                      count == Get(r, "count", N(Len(generations_list)))
                  IN  Found(generations_list,
                            << <<"Showing ", ToString(Len(generations_list)), " of ">>
                               \o Str(count) \o <<" generations">>
                               \o (IF Truthy(has_more) THEN <<" (more available)">> ELSE <<>>) >>)
             ELSE LET fields == SelectSeq(<<"data", "results", "items">>,
                                          LAMBDA f : f \in DOMAIN r /\ r[f].t = "list")
                      generations_list == IF fields = <<>> THEN <<>> ELSE r[Head(fields)].l
                  IN  IF generations_list = <<>>
                      THEN Early(<<"Response format from Luma API doesn't contain generations: ">>
                                 \o Str(result))
                      ELSE Found(generations_list, <<>>)
        ELSE IF result.t = "list" THEN Found(result.l, <<>>)
        ELSE Early(<<"Error: Unexpected response format from Luma API. ", "Got ",
                     TypeName(result), " instead of object with generations.">>)

\* generations_list and pagination_info resolved from the reply; text is set on an early return
ListResolve(result) ==
    LET r == result.d
        Early(txt) == [early |-> TRUE, text |-> txt, list |-> <<>>, pagination |-> <<>>]
        Found(q, pg) == [early |-> FALSE, text |-> <<>>, list |-> q, pagination |-> pg]
    IN  IF ~Truthy(result) THEN Early(<<"No generations found">>)
        ELSE IF result.t = "dict"
        THEN IF "generations" \in DOMAIN r /\ r["generations"].t = "list"
             THEN LET generations_list == r["generations"].l
                      has_more == Get(r, "has_more", B(FALSE))
                      count == Get(r, "count", N(Len(generations_list)))
                  IN  Found(generations_list,
                            << <<"Showing ", ToString(Len(generations_list)), " of ">>
                               \o Str(count) \o <<" generations">>
                               \o (IF Truthy(has_more) THEN <<" (more available)">> ELSE <<>>) >>)
             ELSE IF "id" \in DOMAIN r /\ "state" \in DOMAIN r THEN Found(<<result>>, <<>>)
             ELSE LET fields == SelectSeq(<<"data", "results", "items">>,
                                          LAMBDA f : f \in DOMAIN r /\ r[f].t = "list")
                      generations_list == IF fields = <<>> THEN <<>> ELSE r[Head(fields)].l
                  IN  IF generations_list = <<>>
                      THEN Early(<<"Response format from Luma API doesn't contain generations: ">>
                                 \o Str(result))
                      ELSE Found(generations_list, <<>>)
        ELSE IF result.t = "list" THEN Found(result.l, <<>>)
        ELSE Early(<<"Error: Unexpected response format from Luma API. ", "Got ",
                     TypeName(result), " instead of object with generations.">>)

list_generations_render(parameters, data, result) ==
    LET res == ListResolve(result) IN
    IF res.early THEN res.text
    ELSE IF res.list = <<>> THEN <<"No generations found">>
    ELSE Lines(<< <<"Generations:">> >> \o res.pagination \o GenerationEntries(res.list))

delete_generation_render(parameters, data, result) ==
    <<"Generation ">> \o Str(Get(parameters, "generation_id", None)) \o <<" deleted successfully">>

AssetsSection(asset_lines) ==
    IF asset_lines # <<>> THEN << <<>>, <<"Assets:">> >> \o asset_lines ELSE <<>>

upscale_generation_render(parameters, data, result) ==
    LET generation_id == Get(parameters, "generation_id", None)
        resolution == Get(parameters, "resolution", None)
    IN  IF result.t # "dict"
        THEN <<"Upscale initiated for generation ">> \o Str(generation_id)
             \o <<". Response: ">> \o Str(result)
        ELSE LET r == result.d
                 result_id == Get(r, "id", generation_id)
                 state == Get(r, "state", S(<<"Processing">>))
                 created_at == Get(r, "created_at", S(<<"Unknown">>))
                 model == Get(r, "model", S(<<"Unknown">>))
                 upscale_resolution == Get(r, "resolution", Or(resolution, S(<<"Unknown">>)))
                 assets == Get(r, "assets", D(EmptyDict))
                 asset_lines == IF assets.t = "dict" THEN VideoAssetLines(assets.d) ELSE <<>>
             IN  Lines(<< <<"Upscale initiated for generation ">> \o Str(result_id),
                          <<"Target resolution: ">> \o Str(upscale_resolution),
                          <<"Status: ">> \o Str(state) \o FailureSuffix(r, state),
                          <<"Created at: ">> \o Str(created_at),
                          <<"Model: ">> \o Str(model) >>
                       \o AssetsSection(asset_lines))

add_audio_render(parameters, data, result) ==
    LET generation_id == Get(parameters, "generation_id", None)
        prompt == Get(parameters, "prompt", None)
    IN  IF result.t # "dict"
        THEN <<"Audio generation initiated for generation ">> \o Str(generation_id)
             \o <<". Response: ">> \o Str(result)
        ELSE LET r == result.d
                 result_id == Get(r, "id", generation_id)
                 state == Get(r, "state", S(<<"Processing">>))
                 created_at == Get(r, "created_at", S(<<"Unknown">>))
                 model == Get(r, "model", S(<<"Unknown">>))
                 assets == Get(r, "assets", D(EmptyDict))
                 asset_lines ==
                    IF assets.t = "dict"
                    THEN VideoAssetLines(assets.d)
                         \o (IF "audio" \in DOMAIN assets.d
                             THEN << <<"Audio URL: ">> \o Str(assets.d["audio"]) >> ELSE <<>>)
                    ELSE <<>>
             IN  Lines(<< <<"Audio generation initiated for generation ">> \o Str(result_id),
                          <<"Status: ">> \o Str(state) \o FailureSuffix(r, state),
                          <<"Created at: ">> \o Str(created_at),
                          <<"Model: ">> \o Str(model),
                          <<"Prompt: ">> \o Str(prompt) >>
                       \o (IF "negative_prompt" \in DOMAIN data.d
                           THEN << <<"Negative prompt: ">> \o Str(data.d["negative_prompt"]) >>
                           ELSE <<>>)
                       \o AssetsSection(asset_lines))

generate_image_render(parameters, data, result) ==
    LET prompt == Get(parameters, "prompt", None) IN
    IF result.t # "dict"
    THEN <<"Image generation completed for prompt: ">> \o Str(prompt)
         \o <<". Response: ">> \o Str(result)
    ELSE LET r == result.d
             generation_id == Get(r, "id", S(<<"Unknown">>))
             state == Get(r, "state", S(<<"Processing">>))
             created_at == Get(r, "created_at", S(<<"Unknown">>))
             model == Get(r, "model", Get(parameters, "model", S(<<"ray-2">>)))
             assets == Get(r, "assets", D(EmptyDict))
             image_url == IF assets.t = "dict" /\ "image" \in DOMAIN assets.d
                          THEN assets.d["image"]
                          ELSE S(<<"Image will be available when processing completes">>)
         IN  Lines(<< <<"Image generation ">> \o Str(state) \o FailureSuffix(r, state),
                      <<"ID: ">> \o Str(generation_id),
                      <<"Created at: ">> \o Str(created_at),
                      <<"Model: ">> \o Str(model),
                      <<"Prompt: ">> \o Str(prompt),
                      <<"Image URL: ">> \o Str(image_url) >>)

get_credits_render_TripleFirst(parameters, data, result) ==
    IF result.t # "dict" THEN <<"Credit Information: ">> \o Str(result)
    ELSE LET r == result.d IN
         IF "credit_balance" \in DOMAIN r /\ "credits_used" \notin DOMAIN r
         THEN <<"Credit Information:", "\n", "Available Credits: ">> \o Str(r["credit_balance"])
         ELSE <<"Credit Information:", "\n", "Available Credits: ">>
              \o Str(Get(r, "credits_available", S(<<"Unknown">>)))
              \o <<"\n", "Used Credits: ">> \o Str(Get(r, "credits_used", S(<<"Unknown">>)))
              \o <<"\n", "Total Credits: ">> \o Str(Get(r, "credits_total", S(<<"Unknown">>)))

get_credits_render(parameters, data, result) ==
    IF result.t # "dict" THEN <<"Credit Information: ">> \o Str(result)
    ELSE LET r == result.d IN
         IF "credit_balance" \in DOMAIN r
         THEN <<"Credit Information:", "\n", "Available Credits: ">> \o Str(r["credit_balance"])
         ELSE <<"Credit Information:", "\n", "Available Credits: ">>
              \o Str(Get(r, "credits_available", S(<<"Unknown">>)))
              \o <<"\n", "Used Credits: ">> \o Str(Get(r, "credits_used", S(<<"Unknown">>)))
              \o <<"\n", "Total Credits: ">> \o Str(Get(r, "credits_total", S(<<"Unknown">>)))

\* one "- motion" line
MotionLine(motion) ==
    <<"- ">> \o (IF motion.t = "str" THEN motion.s
                 ELSE IF motion.t = "dict" /\ "name" \in DOMAIN motion.d THEN Str(motion.d["name"])
                 ELSE IF motion.t = "dict" /\ "id" \in DOMAIN motion.d THEN Str(motion.d["id"])
                 ELSE Str(motion))

RECURSIVE MotionLines(_)
MotionLines(q) == IF q = <<>> THEN <<>> ELSE << MotionLine(Head(q)) >> \o MotionLines(Tail(q))

get_camera_motions_render(parameters, data, result) ==
    IF ~Truthy(result) THEN <<"No camera motions available">>
    ELSE IF result.t = "list"
    THEN Lines(<< <<"Available camera motions:">> >> \o MotionLines(result.l))
    ELSE IF result.t = "dict"
    THEN LET r == result.d
             fields == SelectSeq(<<"motions", "camera_motions", "data", "items", "results">>,
                                 LAMBDA f : f \in DOMAIN r /\ r[f].t = "list")
         IN  IF fields # <<>>
             THEN Lines(<< <<"Available camera motions:">> >> \o MotionLines(r[Head(fields)].l))
             ELSE <<"Unexpected response format. Response contained: ">>
                  \o Repr(L([i \in 1..Len(KeySeq(DOMAIN r)) |-> S(<<KeySeq(DOMAIN r)[i]>>)]))
    ELSE <<"Unexpected response format: ">> \o Str(result)

(***************************************************************************)
(* Handlers: the except blocks                                             *)
(***************************************************************************)
ErrorAbout(prefix, subject, msg) == prefix \o Str(subject) \o <<": ">> \o msg

ping_except(parameters, msg) == <<"Error pinging Luma API: ">> \o msg
create_generation_except(parameters, msg) == <<"Error creating generation: ">> \o msg
get_generation_except(parameters, msg) ==
    ErrorAbout(<<"Error getting generation ">>, Get(parameters, "generation_id", None), msg)
list_generations_except(parameters, msg) == <<"Error listing generations: ">> \o msg
delete_generation_except(parameters, msg) ==
    ErrorAbout(<<"Error deleting generation ">>, Get(parameters, "generation_id", None), msg)
add_audio_except(parameters, msg) ==
    ErrorAbout(<<"Error adding audio to generation ">>, Get(parameters, "generation_id", None), msg)
generate_image_except(parameters, msg) ==
    <<"Error generating image for prompt '">> \o Str(Get(parameters, "prompt", None))
    \o <<"': ">> \o msg
get_credits_except(parameters, msg) == <<"Error retrieving credit information: ">> \o msg
get_camera_motions_except(parameters, msg) == <<"Error retrieving camera motions: ">> \o msg

DETAIL_KEY == <<"'", "detail", "'", ": ", "'">>

\* re.search(r"'detail': '([^']*)'", error_msg), with the fallback "Invalid request"
DetailOf(error_msg) ==
    LET n == Len(error_msg)
        starts == {i \in 1..n : /\ i + 5 <= n
                                /\ SubSeq(error_msg, i, i + 4) = DETAIL_KEY
                                /\ \E j \in (i + 5)..n : error_msg[j] = "'"}
    IN  IF starts = {} THEN <<"Invalid request">>
        ELSE LET i == CHOOSE a \in starts : \A b \in starts : a <= b
                 closing == {j \in (i + 5)..n : error_msg[j] = "'"}
                 j == CHOOSE a \in closing : \A b \in closing : a <= b
             IN  SubSeq(error_msg, i + 5, j - 1)

SAME_AS_ORIGINAL == <<") is the same as the original. ", "Please choose a higher resolution.">>
SERVER_ERROR ==
    <<"Server Error. ", "This could be due to:\n",
      "- The generation not being in a completed state\n",
      "- The generation already being upscaled\n",
      "- The Luma API experiencing temporary issues\n\n",
      "Please check the generation status and try again later.">>
COMMON_ISSUES ==
    <<". ", "Common issues include:\n",
      "- The generation is not in a completed state\n",
      "- The requested resolution is not higher than the original\n",
      "- The generation was already upscaled">>

upscale_generation_except(parameters, error_msg) ==
    LET head == <<"Error upscaling generation ">>
                \o Str(Get(parameters, "generation_id", None)) \o <<": ">>
    IN  IF Contains(error_msg, SAME_RESOLUTION)
        THEN head \o <<"The requested resolution (">>
             \o Str(Get(parameters, "resolution", None)) \o SAME_AS_ORIGINAL
        ELSE IF Contains(error_msg, HTTP_ERROR(400))
        THEN head \o DetailOf(error_msg) \o COMMON_ISSUES
        ELSE IF Contains(error_msg, HTTP_ERROR(500))
        THEN head \o SERVER_ERROR
        ELSE head \o error_msg

(***************************************************************************)
(* upscale_generation: the retry loop                                      *)
(***************************************************************************)
max_retries == 2
ALREADY_AT_RESOLUTION ==
    <<" because the original generation is already at this resolution. ",
      "Please choose a higher resolution.">>

ShouldRetry_PhraseIgnored(tool, exc, retry_count) ==
    /\ tool = "upscale_generation"
    /\ exc.cls = "ValueError"
    /\ Contains(exc.msg, HTTP_ERROR(500))
    /\ retry_count < max_retries

ShouldRetry_AnyTool(tool, exc, retry_count) ==
    /\ exc.cls = "ValueError"
    /\ ~Contains(exc.msg, SAME_RESOLUTION)
    /\ Contains(exc.msg, HTTP_ERROR(500))
    /\ retry_count < max_retries

\* the elif branch of the inner except: sleep and go round the loop again
ShouldRetry(tool, exc, retry_count) ==
    /\ tool = "upscale_generation"
    /\ exc.cls = "ValueError"
    /\ ~Contains(exc.msg, SAME_RESOLUTION)
    /\ Contains(exc.msg, HTTP_ERROR(500))
    /\ retry_count < max_retries

Reraised_Unchanged(tool, parameters, exc) == exc

\* the exception that leaves the gateway call site for the handler's except block
Reraised(tool, parameters, exc) ==
    IF tool = "upscale_generation" /\ exc.cls = "ValueError"
       /\ Contains(exc.msg, SAME_RESOLUTION)
    THEN Raise("ValueError", <<"Cannot upscale to ">>
                             \o Str(Get(parameters, "resolution", None))
                             \o ALREADY_AT_RESOLUTION)
    ELSE exc

(***************************************************************************)
(* Dispatch (call_tool)                                                    *)
(***************************************************************************)
Tools ==
    {"ping", "create_generation", "get_generation", "list_generations", "delete_generation",
     "upscale_generation", "add_audio", "generate_image", "get_credits", "get_camera_motions"}

CallOf(tool, parameters) ==
    CASE tool = "ping" -> ping_call(parameters)
      [] tool = "create_generation" -> create_generation_call(parameters)
      [] tool = "get_generation" -> get_generation_call(parameters)
      [] tool = "list_generations" -> list_generations_call(parameters)
      [] tool = "delete_generation" -> delete_generation_call(parameters)
      [] tool = "upscale_generation" -> upscale_generation_call(parameters)
      [] tool = "add_audio" -> add_audio_call(parameters)
      [] tool = "generate_image" -> generate_image_call(parameters)
      [] tool = "get_credits" -> get_credits_call(parameters)
      [] tool = "get_camera_motions" -> get_camera_motions_call(parameters)

RenderOf(tool, parameters, data, result) ==
    CASE tool = "ping" -> ping_render(parameters, data, result)
      [] tool = "create_generation" -> create_generation_render(parameters, data, result)
      [] tool = "get_generation" -> get_generation_render(parameters, data, result)
      [] tool = "list_generations" -> list_generations_render(parameters, data, result)
      [] tool = "delete_generation" -> delete_generation_render(parameters, data, result)
      [] tool = "upscale_generation" -> upscale_generation_render(parameters, data, result)
      [] tool = "add_audio" -> add_audio_render(parameters, data, result)
      [] tool = "generate_image" -> generate_image_render(parameters, data, result)
      [] tool = "get_credits" -> get_credits_render(parameters, data, result)
      [] tool = "get_camera_motions" -> get_camera_motions_render(parameters, data, result)

ExceptOf(tool, parameters, msg) ==
    CASE tool = "ping" -> ping_except(parameters, msg)
      [] tool = "create_generation" -> create_generation_except(parameters, msg)
      [] tool = "get_generation" -> get_generation_except(parameters, msg)
      [] tool = "list_generations" -> list_generations_except(parameters, msg)
      [] tool = "delete_generation" -> delete_generation_except(parameters, msg)
      [] tool = "upscale_generation" -> upscale_generation_except(parameters, msg)
      [] tool = "add_audio" -> add_audio_except(parameters, msg)
      [] tool = "generate_image" -> generate_image_except(parameters, msg)
      [] tool = "get_credits" -> get_credits_except(parameters, msg)
      [] tool = "get_camera_motions" -> get_camera_motions_except(parameters, msg)

HandlerCatches_ValueErrorOnly(tool, cls) == cls = "ValueError"
\* except Exception as e: every exception class that can arise here derives from Exception
HandlerCatches(tool, cls) ==
    cls \in {"ValueError", "AttributeError", "InvalidURL", "TypeError", "RuntimeError"}

\* the handler's except block
Caught(tool, parameters, exc) ==
    IF HandlerCatches(tool, exc.cls)
    THEN [next |-> "done", ret |-> S(ExceptOf(tool, parameters, exc.msg))]
    ELSE [next |-> "escaped", ret |-> None]

\* the handler from the point where the gateway call returns or raises
AfterGateway(tool, parameters, data, out, retry_count) ==
    IF out.kind = "return"
    THEN [next |-> "done", ret |-> S(RenderOf(tool, parameters, data, out.val))]
    ELSE IF ShouldRetry(tool, out, retry_count) THEN [next |-> "sleeping", ret |-> None]
    ELSE Caught(tool, parameters, Reraised(tool, parameters, out))

(***************************************************************************)
(* Inputs                                                                  *)
(***************************************************************************)
NumProcs == 2
Procs == 1..NumProcs

GEN_ID == S(<<"gen-1">>)
PROMPT == S(<<"a red fox">>)
EMPTY  == S(<<>>)

IMAGE_FRAME == D([type |-> S(<<"image">>), url |-> S(<<"https://example.com/a.png">>)])
GENERATION_FRAME == D([type |-> S(<<"generation">>), id |-> S(<<"gen-0">>)])
UNTAGGED_FRAME == D([url |-> S(<<"https://example.com/a.png">>)])

ParametersOf(tool) ==
    CASE tool = "ping" -> {EmptyDict}
      [] tool = "create_generation" ->
            { EmptyDict,
              [prompt |-> EMPTY],
              [prompt |-> PROMPT],
              [prompt |-> S(<<"p">>), resolution |-> S(<<"720p">>)],
              [prompt |-> PROMPT, model |-> S(<<"ray-flash-2">>), aspect_ratio |-> S(<<"16:9">>)],
              [prompt |-> PROMPT, resolution |-> S(<<"720p">>), duration |-> S(<<"10s">>),
               loop |-> B(FALSE), callback_url |-> None],
              [prompt |-> PROMPT, duration |-> S(<<"5s">>), negative_prompt |-> S(<<"noise">>),
               generation_id |-> GEN_ID, aspect_ratio |-> None],
              [prompt |-> PROMPT, keyframes |-> D(EmptyDict)],
              [prompt |-> PROMPT, keyframes |-> S(<<"frame0">>)],
              [prompt |-> PROMPT, keyframes |-> D([frame2 |-> IMAGE_FRAME])],
              [prompt |-> PROMPT, keyframes |-> D([frame0 |-> S(<<"https://example.com/a.png">>)])],
              [prompt |-> PROMPT, keyframes |-> D([frame0 |-> IMAGE_FRAME])],
              [prompt |-> PROMPT, keyframes |-> D([frame0 |-> UNTAGGED_FRAME])],
              [prompt |-> PROMPT, keyframes |-> D([frame1 |-> GENERATION_FRAME])],
              [prompt |-> PROMPT, keyframes |-> D([frame0 |-> GENERATION_FRAME,
                                                   frame1 |-> IMAGE_FRAME])],
              [prompt |-> PROMPT, keyframes |-> D([frame0 |-> IMAGE_FRAME,
                                                   frame1 |-> GENERATION_FRAME])] }
      [] tool = "get_generation" ->
            { EmptyDict, [generation_id |-> EMPTY], [generation_id |-> None],
              [generation_id |-> GEN_ID] }
      [] tool = "list_generations" -> { EmptyDict, [limit |-> N(5), offset |-> N(1)] }
      [] tool = "delete_generation" ->
            { EmptyDict, [generation_id |-> None], [generation_id |-> GEN_ID] }
      [] tool = "upscale_generation" ->
            { EmptyDict,
              [resolution |-> S(<<"1080p">>)],
              [generation_id |-> GEN_ID],
              [generation_id |-> GEN_ID, resolution |-> EMPTY],
              [generation_id |-> GEN_ID, resolution |-> S(<<"8k">>)],
              [generation_id |-> GEN_ID, resolution |-> N(1080)],
              [generation_id |-> GEN_ID, resolution |-> S(<<"1080p">>)] }
      [] tool = "add_audio" ->
            { EmptyDict,
              [prompt |-> PROMPT],
              [generation_id |-> GEN_ID],
              [generation_id |-> GEN_ID, prompt |-> EMPTY],
              [generation_id |-> GEN_ID, prompt |-> PROMPT],
              [generation_id |-> GEN_ID, prompt |-> PROMPT,
               negative_prompt |-> S(<<"noise">>), callback_url |-> EMPTY] }
      [] tool = "generate_image" ->
            { EmptyDict,
              [prompt |-> None],
              [prompt |-> PROMPT],
              [prompt |-> PROMPT, model |-> None],
              [prompt |-> PROMPT, model |-> S(<<"photon-flash-1">>)],
              [prompt |-> PROMPT, model |-> S(<<"ray-2">>)] }
      [] tool = "get_credits" -> {EmptyDict}
      [] tool = "get_camera_motions" -> {EmptyDict}

\* the api_key argument of a handler, and the LUMA_API_KEY variable of the process
ApiKeys == {None, EMPTY, S(<<"param-key">>)}
EnvKeys == {None, S(<<"env-key">>)}

Statuses == {200, 400, 500, 502}
JSON_CTYPE == <<"application/json">>
TEXT_CTYPE == <<"text/plain">>

JsonBodies ==
    { JsonBody(D(EmptyDict)),
      JsonBody(D([id |-> S(<<"test-id">>), state |-> S(<<"pending">>)])),
      JsonBody(D([detail |-> S(<<"Upscale rejected: ">> \o SAME_RESOLUTION)])),
      JsonBody(D([detail |-> S(<<"upstream replied ">> \o HTTP_ERROR(500))])),
      JsonBody(D([detail |-> S(<<"Generation is not completed">>)])),
      JsonBody(L(<<S(<<"static">>)>>)),
      JsonBody(None) }

TextBodies == { TextBody(<<"Internal Server Error">>), TextBody(<<"{", "truncated">>) }

\* two generation objects as the API lists them
GEN_A == D([id |-> S(<<"gen-a">>), state |-> S(<<"completed">>),
            request |-> D([prompt |-> PROMPT]),
            assets |-> D([video |-> S(<<"https://example.com/a.mp4">>)])])
GEN_B == D([id |-> S(<<"gen-b">>), state |-> S(<<"failed">>),
            generation_type |-> S(<<"image">>)])

\* replies of the listing endpoint, in the shapes list_generations reads
ListBodies ==
    { JsonBody(D([generations |-> L(<<GEN_A, GEN_B>>), has_more |-> B(TRUE), count |-> N(7)])),
      JsonBody(D([generations |-> L(<<GEN_A>>)])),
      JsonBody(D([generations |-> L(<<>>)])),
      JsonBody(L(<<GEN_A, GEN_B>>)),
      JsonBody(L(<<GEN_A>>)),
      JsonBody(L(<<>>)),
      JsonBody(GEN_A),
      JsonBody(D([data |-> L(<<GEN_A, GEN_B>>)])),
      JsonBody(D([results |-> L(<<GEN_A, GEN_B>>)])),
      JsonBody(D([items |-> L(<<GEN_A, GEN_B>>)])),
      JsonBody(D([data |-> L(<<>>), items |-> L(<<GEN_A>>)])) }

\* replies of the camera-motion endpoint
MotionBodies ==
    { JsonBody(L(<<S(<<"pan_left">>), D([name |-> S(<<"orbit">>)])>>)),
      JsonBody(D([motions |-> L(<<>>)])),
      JsonBody(D([camera_motions |-> L(<<S(<<"pan_left">>)>>)])),
      JsonBody(D([results |-> L(<<>>)])) }

\* replies of the credits endpoint
CreditBodies ==
    { JsonBody(D([credit_balance |-> N(150000)])),
      JsonBody(D([credit_balance |-> N(5), credits_used |-> N(2)])),
      JsonBody(D([credits_available |-> N(1), credits_used |-> N(2), credits_total |-> N(3)])),
      JsonBody(D([credits_available |-> N(1)])) }

\* listing replies in which more than one of the keys list_generations reads is present
MixedListBodies ==
    { JsonBody(D([generations |-> L(<<GEN_B>>), id |-> S(<<"gen-a">>),
                  state |-> S(<<"completed">>), data |-> L(<<GEN_A>>)])),
      JsonBody(D([id |-> S(<<"gen-b">>), state |-> S(<<"failed">>), data |-> L(<<GEN_A>>)])),
      JsonBody(D([results |-> L(<<GEN_A>>), items |-> L(<<GEN_B>>)])),
      JsonBody(D([generations |-> L(<<GEN_A, S(<<"junk">>)>>)])),
      JsonBody(D([generations |-> L(<<GEN_A>>), has_more |-> B(FALSE), count |-> N(1)])) }

\* generation objects in various states, with and without a failure reason
StateBodies ==
    { JsonBody(D([id |-> S(<<"gen-f">>), state |-> S(<<"failed">>),
                  failure_reason |-> S(<<"content moderation">>)])),
      JsonBody(D([id |-> S(<<"gen-f">>), state |-> S(<<"failed">>)])),
      JsonBody(D([id |-> S(<<"gen-f">>), state |-> S(<<"failed">>), failure_reason |-> EMPTY])),
      JsonBody(D([id |-> S(<<"gen-f">>), state |-> S(<<"Failed">>),
                  failure_reason |-> S(<<"content moderation">>)])),
      JsonBody(D([id |-> S(<<"gen-f">>), state |-> S(<<"queued-v2">>),
                  failure_reason |-> S(<<"content moderation">>),
                  model |-> S(<<"photon-flash-1">>)])),
      JsonBody(D([id |-> S(<<"gen-f">>), state |-> N(7),
                  failure_reason |-> S(<<"content moderation">>)])) }

\* statuses below 400 other than 200
OtherSuccess == {204, 302}

Responses ==
    [status : Statuses, ctype : {JSON_CTYPE}, body : {EmptyBody} \cup JsonBodies \cup TextBodies]
    \cup [status : Statuses, ctype : {TEXT_CTYPE},
          body : TextBodies \cup {JsonBody(D([id |-> S(<<"test-id">>), state |-> S(<<"pending">>)]))}]
    \cup [status : {200}, ctype : {JSON_CTYPE},
          body : ListBodies \cup MotionBodies \cup CreditBodies
                 \cup MixedListBodies \cup StateBodies]
    \cup [status : {200}, ctype : {TEXT_CTYPE},
          body : {JsonBody(L(<<S(<<"static">>)>>)), JsonBody(None)}]
    \cup [status : OtherSuccess, ctype : {TEXT_CTYPE},
          body : {EmptyBody, TextBody(<<"Internal Server Error">>)}]

NetOutcomes ==
    {Response(r) : r \in Responses}
    \cup { RequestError(<<"All connection attempts failed">>),
           OtherError("InvalidURL", <<"Invalid non-printable ASCII character in URL">>) }

(***************************************************************************)
(* State                                                                   *)
(***************************************************************************)
VARIABLES
    env_key,      \* os.environ["LUMA_API_KEY"]
    active,       \* the invocations that run
    pc,           \* where each invocation is
    tool,         \* the handler invoked
    parameters,   \* its argument mapping
    api_key,      \* its api_key argument
    data,         \* the call it prepared (method, endpoint, body)
    request,      \* the request handed to client.request
    client,       \* the gateway's httpx client: "none", "open", "closed"
    retry_count,  \* upscale_generation's retry counter
    calls,        \* client.request calls made by this invocation
    attempts,     \* what each of those calls came back with
    pending,      \* the gateway call's outcome while its finally block runs
    ret           \* the text returned

vars == <<env_key, active, pc, tool, parameters, api_key, data, request, client,
          retry_count, calls, attempts, pending, ret>>

NoCall == Fail("", <<>>)
NoOutcome == [kind |-> "none", cls |-> "", msg |-> <<>>, val |-> None]

Fresh(v, p, x) == [v EXCEPT ![p] = x]

InitWith(procs) ==
    /\ env_key \in EnvKeys
    /\ active = procs
    /\ pc = [p \in Procs |-> "idle"]
    /\ tool = [p \in Procs |-> "ping"]
    /\ parameters = [p \in Procs |-> EmptyDict]
    /\ api_key = [p \in Procs |-> None]
    /\ data = [p \in Procs |-> NoCall]
    /\ request = [p \in Procs |-> NoRequest]
    /\ client = [p \in Procs |-> "none"]
    /\ retry_count = [p \in Procs |-> 0]
    /\ calls = [p \in Procs |-> 0]
    /\ attempts = [p \in Procs |-> <<>>]
    /\ pending = [p \in Procs |-> NoOutcome]
    /\ ret = [p \in Procs |-> None]

Init == InitWith({1})

\* _make_luma_request up to its first suspension: resolve the key, open the client, send.
\* When no key resolves, the ValueError goes straight back to the handler.
EnterGateway(p, t, prm, key, call, rc) ==
    LET resolved == ResolveKey(key, env_key) IN
    IF ~Truthy(resolved)
    THEN LET step == AfterGateway(t, prm, call.json, Raise("ValueError", MISSING_KEY), rc) IN
         /\ pc' = Fresh(pc, p, step.next)
         /\ ret' = Fresh(ret, p, step.ret)
         /\ pending' = Fresh(pending, p, Raise("ValueError", MISSING_KEY))
         /\ client' = Fresh(client, p, "none")
         /\ UNCHANGED <<request, calls>>
    ELSE /\ pc' = Fresh(pc, p, "awaiting")
         /\ client' = Fresh(client, p, "open")
         /\ request' = Fresh(request, p, HttpRequest(call, resolved))
         /\ calls' = Fresh(calls, p, calls[p] + 1)
         /\ pending' = Fresh(pending, p, NoOutcome)
         /\ UNCHANGED ret

\* call_tool awaits a handler: the handler runs to its first suspension or to its return
InvokeFrom(p, tools, keys) ==
    /\ p \in active
    /\ pc[p] = "idle"
    /\ \E t \in tools : \E prm \in ParametersOf(t) : \E key \in keys :
          LET call == CallOf(t, prm) IN
          /\ tool' = Fresh(tool, p, t)
          /\ parameters' = Fresh(parameters, p, prm)
          /\ api_key' = Fresh(api_key, p, key)
          /\ data' = Fresh(data, p, call)
          /\ retry_count' = Fresh(retry_count, p, 0)
          /\ attempts' = Fresh(attempts, p, <<>>)
          /\ IF call.kind = "raise"
             THEN LET step == Caught(t, prm, Raise(call.cls, call.msg)) IN
                  /\ pc' = Fresh(pc, p, step.next)
                  /\ ret' = Fresh(ret, p, step.ret)
                  /\ UNCHANGED <<request, client, calls, pending>>
             ELSE EnterGateway(p, t, prm, key, call, 0)
    /\ UNCHANGED <<env_key, active>>

Invoke(p) == InvokeFrom(p, Tools, ApiKeys)

\* the reply is kept in one place for all invocations: an invocation reads the latest one
ReceiveFrom_SharedReply(p, outcomes) ==
    /\ pc[p] = "awaiting"
    /\ \E net \in outcomes :
          LET others == {q \in Procs \ {p} : attempts[q] # <<>>}
              latest == IF others = {} THEN net
                        ELSE LET q == CHOOSE q \in others : TRUE
                             IN  attempts[q][Len(attempts[q])]
          IN  /\ attempts' = Fresh(attempts, p, Append(attempts[p], net))
              /\ pending' = Fresh(pending, p, GatewayOutcome(latest))
    /\ pc' = Fresh(pc, p, "closing")
    /\ UNCHANGED <<env_key, active, tool, parameters, api_key, data, request, client,
                   retry_count, calls, ret>>

\* client.request completes: a response, a transport fault or another exception
ReceiveFrom(p, outcomes) ==
    /\ pc[p] = "awaiting"
    /\ \E net \in outcomes :
          /\ attempts' = Fresh(attempts, p, Append(attempts[p], net))
          /\ pending' = Fresh(pending, p, GatewayOutcome(net))
    /\ pc' = Fresh(pc, p, "closing")
    /\ UNCHANGED <<env_key, active, tool, parameters, api_key, data, request, client,
                   retry_count, calls, ret>>

Receive(p) == ReceiveFrom(p, NetOutcomes)

\* retry_count kept in one place for all invocations
Finally_SharedRetryCount(p) ==
    /\ pc[p] = "closing"
    /\ client' = Fresh(client, p, ClientAfterFinally(client[p]))
    /\ LET step == AfterGateway(tool[p], parameters[p], data[p].json, pending[p], retry_count[p])
       IN  /\ pc' = Fresh(pc, p, step.next)
           /\ ret' = Fresh(ret, p, step.ret)
           /\ retry_count' = [q \in Procs |->
                                 IF step.next = "sleeping" THEN retry_count[p] + 1
                                 ELSE retry_count[q]]
    /\ UNCHANGED <<env_key, active, tool, parameters, api_key, data, request, calls,
                   attempts, pending>>

\* the gateway's finally block runs, then the handler goes on with the outcome
Finally(p) ==
    /\ pc[p] = "closing"
    /\ client' = Fresh(client, p, ClientAfterFinally(client[p]))
    /\ LET step == AfterGateway(tool[p], parameters[p], data[p].json, pending[p], retry_count[p])
       IN  /\ pc' = Fresh(pc, p, step.next)
           /\ ret' = Fresh(ret, p, step.ret)
           /\ retry_count' = Fresh(retry_count, p,
                                   IF step.next = "sleeping" THEN retry_count[p] + 1
                                   ELSE retry_count[p])
    /\ UNCHANGED <<env_key, active, tool, parameters, api_key, data, request, calls,
                   attempts, pending>>

\* asyncio.sleep(2) is over: the loop calls the gateway again
Retry(p) ==
    /\ pc[p] = "sleeping"
    /\ EnterGateway(p, tool[p], parameters[p], api_key[p], data[p], retry_count[p])
    /\ UNCHANGED <<env_key, active, tool, parameters, api_key, data, retry_count, attempts>>

\* the caller has the text; the invocation's frame is gone
Complete(p) ==
    /\ pc[p] = "done"
    /\ pc' = Fresh(pc, p, "idle")
    /\ tool' = Fresh(tool, p, "ping")
    /\ parameters' = Fresh(parameters, p, EmptyDict)
    /\ api_key' = Fresh(api_key, p, None)
    /\ data' = Fresh(data, p, NoCall)
    /\ request' = Fresh(request, p, NoRequest)
    /\ client' = Fresh(client, p, "none")
    /\ retry_count' = Fresh(retry_count, p, 0)
    /\ calls' = Fresh(calls, p, 0)
    /\ attempts' = Fresh(attempts, p, <<>>)
    /\ pending' = Fresh(pending, p, NoOutcome)
    /\ ret' = Fresh(ret, p, None)
    /\ UNCHANGED <<env_key, active>>

Next ==
    \/ \E p \in Procs : Invoke(p)
    \/ \E p \in Procs : Receive(p)
    \/ \E p \in Procs : Finally(p)
    \/ \E p \in Procs : Retry(p)
    \/ \E p \in Procs : Complete(p)

Spec == Init /\ [][Next]_vars

(***************************************************************************)
(* Concurrent invocations: the event loop runs several call_tool tasks,    *)
(* switching between them at every await (client.request, aclose, sleep).  *)
(***************************************************************************)
ConcTools == {"get_generation", "upscale_generation"}
ConcApiKeys == {S(<<"param-key">>)}
ConcOutcomes ==
    { Response([status |-> 200, ctype |-> JSON_CTYPE,
                body |-> JsonBody(D([id |-> S(<<"test-id">>), state |-> S(<<"pending">>)]))]),
      Response([status |-> 200, ctype |-> JSON_CTYPE, body |-> JsonBody(GEN_A)]),
      Response([status |-> 500, ctype |-> TEXT_CTYPE,
                body |-> TextBody(<<"Internal Server Error">>)]),
      RequestError(<<"All connection attempts failed">>) }

InitConc == InitWith(Procs)

ConcInvoke(p) == InvokeFrom(p, ConcTools, ConcApiKeys)
ConcReceive(p) == ReceiveFrom(p, ConcOutcomes)

NextConc ==
    \/ \E p \in Procs : ConcInvoke(p)
    \/ \E p \in Procs : ConcReceive(p)
    \/ \E p \in Procs : Finally(p)
    \/ \E p \in Procs : Retry(p)
    \/ \E p \in Procs : Complete(p)

SpecConc == InitConc /\ [][NextConc]_vars

(***************************************************************************)
(* Properties                                                              *)
(***************************************************************************)
LastAttempt(p) == attempts[p][Len(attempts[p])]
IsResponse(net, status) == net.k = "response" /\ net.resp.status = status

\* the required fields of the tools' input types
RequiredArgs(t) ==
    CASE t = "create_generation" -> {"prompt"}
      [] t = "get_generation" -> {"generation_id"}
      [] t = "delete_generation" -> {"generation_id"}
      [] t = "upscale_generation" -> {"generation_id", "resolution"}
      [] t = "add_audio" -> {"generation_id", "prompt"}
      [] t = "generate_image" -> {"prompt"}
      [] OTHER -> {}

MissingArgs(t, prm) == {a \in RequiredArgs(t) : ~Truthy(Get(prm, a, None))}

\* the first words of each handler's error text
ErrorHeads ==
    {"Error pinging Luma API: ", "Error creating generation: ", "Error getting generation ",
     "Error listing generations: ", "Error deleting generation ", "Error upscaling generation ",
     "Error adding audio to generation ", "Error generating image for prompt '",
     "Error retrieving credit information: ", "Error retrieving camera motions: "}

IsErrorText(v) == v.t = "str" /\ v.s # <<>> /\ Head(v.s) \in ErrorHeads

\* C1: every handler invocation, whatever its arguments and whatever the gateway does
\* (reply of any shape, HTTP status >= 400, transport fault, other exception, missing
\* credential), ends by returning a non-empty text; no exception leaves a handler.
\* An invocation is always at one of its suspension points or returned, and it has made at
\* most 1 + max_retries calls, so it does return once its pending call completes.
C1_HandlersReturnText ==
    \A p \in Procs :
        /\ pc[p] \in {"idle", "awaiting", "closing", "sleeping", "done"}
        /\ pc[p] = "done" => (ret[p].t = "str" /\ ret[p].s # <<>>)
        /\ pc[p] # "done" => ret[p] = None
        /\ calls[p] <= 1 + max_retries /\ retry_count[p] <= max_retries

C1_Witness ==
    \E p \in Procs :
        /\ pc[p] = "done"
        /\ pending[p].kind = "raise"
        /\ pending[p].cls = "InvalidURL"
        /\ IsErrorText(ret[p])

\* C2: when a required argument is absent or empty the handler returns an error text that
\* names a missing parameter, and the invocation makes no network call.
C2_MissingArgumentNoCall ==
    \A p \in Procs :
        (pc[p] # "idle" /\ MissingArgs(tool[p], parameters[p]) # {}) =>
            /\ calls[p] = 0
            /\ client[p] = "none"
            /\ pc[p] = "done"
            /\ IsErrorText(ret[p])
            /\ \E a \in MissingArgs(tool[p], parameters[p]) :
                  Contains(ret[p].s, <<a>> \o REQUIRED)

C2_Witness ==
    \E p \in Procs :
        /\ pc[p] = "done"
        /\ tool[p] = "add_audio"
        /\ MissingArgs(tool[p], parameters[p]) = {"prompt"}
        /\ calls[p] = 0
        /\ Contains(ret[p].s, <<"prompt">> \o REQUIRED)

\* C3: once a handler reaches the gateway, the credential sent is the api_key argument when
\* one is given, otherwise the LUMA_API_KEY value; when neither gives one the gateway raises
\* the missing-credential error, no client is opened and no network call is made.
C3_CredentialResolution ==
    \A p \in Procs :
        (pc[p] # "idle" /\ data[p].kind = "call") =>
            IF Truthy(api_key[p])
            THEN calls[p] >= 1
                 /\ request[p].headers.Authorization = <<"Bearer ">> \o api_key[p].s
            ELSE IF Truthy(env_key)
            THEN calls[p] >= 1
                 /\ request[p].headers.Authorization = <<"Bearer ">> \o env_key.s
            ELSE /\ calls[p] = 0
                 /\ client[p] = "none"
                 /\ request[p] = NoRequest
                 /\ pending[p] = Raise("ValueError", MISSING_KEY)
                 /\ pc[p] = "done"
                 /\ Contains(ret[p].s, MISSING_KEY)

C3_Witness ==
    \E p \in Procs :
        /\ pc[p] = "done"
        /\ data[p].kind = "call"
        /\ api_key[p] = EMPTY
        /\ env_key = None
        /\ calls[p] = 0
        /\ Contains(ret[p].s, MISSING_KEY)

\* C4 (as claimed): every response with HTTP status >= 400, whatever its body, makes the
\* gateway raise an error whose message carries "HTTP error <status>"; it never returns.
C4_Claim ==
    \A p \in Procs :
        (pc[p] = "closing" /\ LastAttempt(p).k = "response"
         /\ LastAttempt(p).resp.status >= 400) =>
            /\ pending[p].kind = "raise"
            /\ Contains(pending[p].msg, HTTP_ERROR(LastAttempt(p).resp.status))

\* C5: a client the gateway opened is closed by the time the gateway call has returned or
\* raised, on every exit path; outside a gateway call no client is open.
C5_ClientClosed ==
    \A p \in Procs :
        /\ pc[p] \notin {"awaiting", "closing"} => client[p] # "open"
        /\ (pc[p] \in {"done", "sleeping"} /\ calls[p] > 0) => client[p] = "closed"

C5_Witness ==
    \E p \in Procs :
        /\ pc[p] = "done"
        /\ calls[p] = 1
        /\ LastAttempt(p).k = "request_error"
        /\ pending[p].kind = "raise"
        /\ client[p] = "closed"

GatewayError(net) == GatewayOutcome(net).kind = "raise"
UpscaleValid(p) == tool[p] = "upscale_generation" /\ data[p].kind = "call"
IsUpscaleSuccess(v) == v.t = "str" /\ v.s # <<>> /\ Head(v.s) = "Upscale initiated for generation "

\* a reply whose text carries the same-resolution phrase
CarriesPhrase(net) == net.k = "response" /\ Contains(net.resp.body.text, SAME_RESOLUTION)
Plain500(net) == IsResponse(net, 500) /\ ~CarriesPhrase(net)

\* C6 (as claimed): in an upscale_generation invocation with valid arguments, a first and a
\* second attempt that receive HTTP 500 are each followed by a further attempt, and when the
\* third attempt receives HTTP 200 the invocation ends after exactly 3 attempts with the
\* "Upscale initiated for generation ..." rendering.
\* (Replies that carry the same-resolution phrase are the case of C7 and are left out.)
C6_Claim ==
    \A p \in Procs :
        (UpscaleValid(p) /\ pc[p] = "done") =>
            /\ (Len(attempts[p]) >= 1 /\ Plain500(attempts[p][1]))
                  => Len(attempts[p]) >= 2
            /\ (Len(attempts[p]) >= 2 /\ Plain500(attempts[p][1]) /\ Plain500(attempts[p][2]))
                  => (Len(attempts[p]) = 3 /\ calls[p] = 3)
            /\ (Len(attempts[p]) = 3 /\ Plain500(attempts[p][1]) /\ Plain500(attempts[p][2])
                /\ IsResponse(attempts[p][3], 200))
                  => IsUpscaleSuccess(ret[p])

\* C7: in upscale_generation, an attempt whose error text contains "same resolution as the
\* original" (whatever the HTTP status) is the last attempt: no retry follows it, so when it
\* is the first attempt exactly one network call is made; and the text returned explains
\* that the requested resolution conflicts with the original's.
C7_SameResolutionNoRetry ==
    \A p \in Procs :
        UpscaleValid(p) =>
            \A i \in 1..Len(attempts[p]) :
                (GatewayError(attempts[p][i])
                 /\ Contains(GatewayOutcome(attempts[p][i]).msg, SAME_RESOLUTION)) =>
                    /\ i = Len(attempts[p])
                    /\ calls[p] = i
                    /\ pc[p] \in {"closing", "done"}
                    /\ pc[p] = "done" =>
                          /\ IsErrorText(ret[p])
                          /\ \/ Contains(ret[p].s, ALREADY_AT_RESOLUTION)
                             \/ Contains(ret[p].s, SAME_AS_ORIGINAL)

C7_Witness ==
    \E p \in Procs :
        /\ UpscaleValid(p)
        /\ pc[p] = "done"
        /\ calls[p] = 1
        /\ IsResponse(attempts[p][1], 500)
        /\ Contains(pending[p].msg, SAME_RESOLUTION)
        /\ Contains(ret[p].s, ALREADY_AT_RESOLUTION)

\* C8 (as claimed): an upscale_generation invocation makes at most 3 network attempts, and
\* when all three attempts received HTTP 500 it returns the "Server Error" explanation.
\* (Replies that carry the same-resolution phrase are the case of C7 and are left out.)
C8_Claim ==
    \A p \in Procs :
        tool[p] = "upscale_generation" =>
            /\ calls[p] <= 1 + max_retries
            /\ (pc[p] = "done" /\ Len(attempts[p]) = 3
                /\ \A i \in 1..3 : /\ IsResponse(attempts[p][i], 500)
                                   /\ ~CarriesPhrase(attempts[p][i]))
                  => (IsErrorText(ret[p]) /\ Contains(ret[p].s, SERVER_ERROR))

\* C9 (as claimed): within an upscale_generation invocation every attempt that is followed
\* by another attempt (or by the pause before one) received HTTP status 500; an attempt that
\* failed with another status or with a transport fault is never retried.
C9_Claim ==
    \A p \in Procs :
        tool[p] = "upscale_generation" =>
            /\ \A i \in 1..(Len(attempts[p]) - 1) : IsResponse(attempts[p][i], 500)
            /\ (pc[p] = "sleeping") => IsResponse(LastAttempt(p), 500)

\* C10: a handler other than upscale_generation never makes more than one network call in
\* an invocation, and makes exactly one once its arguments have passed its checks and a
\* credential resolves, whatever that call comes back with.
C10_SingleCall ==
    \A p \in Procs :
        (pc[p] # "idle" /\ tool[p] # "upscale_generation") =>
            /\ calls[p] <= 1
            /\ pc[p] # "sleeping"
            /\ (data[p].kind = "call" /\ Truthy(ResolveKey(api_key[p], env_key)))
                  => (calls[p] = 1 /\ Len(attempts[p]) = (IF pc[p] = "awaiting" THEN 0 ELSE 1))
            /\ (data[p].kind # "call" \/ ~Truthy(ResolveKey(api_key[p], env_key)))
                  => calls[p] = 0

C10_Witness ==
    \E p \in Procs :
        /\ tool[p] = "add_audio"
        /\ pc[p] = "done"
        /\ calls[p] = 1
        /\ IsResponse(attempts[p][1], 500)
        /\ pending[p].kind = "raise"
        /\ Contains(pending[p].msg, HTTP_ERROR(500))
        /\ IsErrorText(ret[p])

(***************************************************************************)
(* create_generation                                                       *)
(***************************************************************************)
OptionalFields == {"resolution", "duration", "aspect_ratio", "loop", "callback_url"}
GivenOptional(prm) == {k \in OptionalFields : k \in DOMAIN prm /\ prm[k] # None}
HasKeyframes(prm) == "keyframes" \in DOMAIN prm /\ Truthy(prm["keyframes"])
TEST_REPLY == D([id |-> S(<<"test-id">>), state |-> S(<<"pending">>)])

\* C11: the JSON body create_generation sends holds the prompt, the model (the one given, or
\* "ray-2" when the arguments have none) and exactly those of resolution, duration,
\* aspect_ratio, loop, callback_url that the arguments hold with a non-null value
\* (next to the keyframes, when keyframes are given); {prompt: "p", resolution: "720p"}
\* sends exactly {prompt: "p", model: "ray-2", resolution: "720p"}, and with the reply
\* {id: "test-id", state: "pending"} the text returned contains
\* "Created text-to-video generation with ID: test-id" and "State: pending".
C11_CreateRequestBody ==
    \A p \in Procs :
        (tool[p] = "create_generation" /\ calls[p] >= 1) =>
            LET prm  == parameters[p]
                body == request[p].json
            IN  /\ body.t = "dict"
                /\ DOMAIN body.d \ {"keyframes"} = {"prompt", "model"} \cup GivenOptional(prm)
                /\ body.d["prompt"] = prm["prompt"]
                /\ body.d["model"] = (IF "model" \in DOMAIN prm THEN prm["model"]
                                      ELSE S(<<"ray-2">>))
                /\ \A k \in GivenOptional(prm) : body.d[k] = prm[k]
                /\ ~HasKeyframes(prm) => "keyframes" \notin DOMAIN body.d
                /\ prm = [prompt |-> S(<<"p">>), resolution |-> S(<<"720p">>)]
                      => body.d = [prompt |-> S(<<"p">>), model |-> S(<<"ray-2">>),
                                   resolution |-> S(<<"720p">>)]
                /\ (pc[p] = "done" /\ ~HasKeyframes(prm) /\ pending[p] = Return(TEST_REPLY))
                      => /\ Contains(ret[p].s, <<"Created text-to-video generation with ID: ",
                                                 "test-id">>)
                         /\ Contains(ret[p].s, <<"State: ", "pending">>)

C11_Witness ==
    \E p \in Procs :
        /\ tool[p] = "create_generation"
        /\ pc[p] = "done"
        /\ parameters[p] = [prompt |-> S(<<"p">>), resolution |-> S(<<"720p">>)]
        /\ request[p].json = D([prompt |-> S(<<"p">>), model |-> S(<<"ray-2">>),
                                resolution |-> S(<<"720p">>)])
        /\ pending[p] = Return(TEST_REPLY)
        /\ Contains(ret[p].s, <<"Created text-to-video generation with ID: ", "test-id">>)

\* C12 (as claimed): when the keyframes argument of create_generation is a mapping that has
\* neither frame0 nor frame1 (the empty mapping included), the handler returns an error text
\* and makes no network call.
C12_Claim ==
    \A p \in Procs :
        (/\ tool[p] = "create_generation" /\ pc[p] # "idle"
         /\ Truthy(Get(parameters[p], "prompt", None))
         /\ "keyframes" \in DOMAIN parameters[p]
         /\ parameters[p]["keyframes"].t = "dict"
         /\ "frame0" \notin DOMAIN parameters[p]["keyframes"].d
         /\ "frame1" \notin DOMAIN parameters[p]["keyframes"].d) =>
            /\ calls[p] = 0
            /\ pc[p] = "done"
            /\ IsErrorText(ret[p])

\* the tag of a keyframe, "" when the position is not given
FrameTag(kf, f) ==
    IF f \in DOMAIN kf.d THEN Str(Get(kf.d[f].d, "type", S(<<"untagged">>))) ELSE <<"">>

\* C13: with keyframes given and a mapping reply whose generation_type is not "image",
\* create_generation returns the advanced rendering, whose description holds
\* "starting from an image" iff frame0 is an image, "extending an existing video" iff frame0
\* is a generation, "ending with an image" iff frame1 is an image,
\* "interpolating between videos" iff frame1 is a generation and frame0 is present,
\* "reverse extending to an existing video" iff frame1 is a generation and frame0 is absent;
\* and the keyframes mapping is sent unchanged in the request body.
C13_KeyframeRendering ==
    \A p \in Procs :
        (tool[p] = "create_generation" /\ data[p].kind = "call" /\ HasKeyframes(parameters[p])) =>
            LET kf == parameters[p]["keyframes"]
                t0 == FrameTag(kf, "frame0")
                t1 == FrameTag(kf, "frame1")
                Says(phrase) == Contains(ret[p].s, <<phrase>>)
            IN  /\ calls[p] >= 1 => request[p].json.d["keyframes"] = kf
                /\ (/\ pc[p] = "done" /\ pending[p].kind = "return"
                    /\ pending[p].val.t = "dict"
                    /\ Get(pending[p].val.d, "generation_type", None) # S(<<"image">>)) =>
                       /\ Head(ret[p].s) = "Created advanced generation ("
                       /\ Says("starting from an image") <=> t0 = <<"image">>
                       /\ Says("extending an existing video") <=> t0 = <<"generation">>
                       /\ Says("ending with an image") <=> t1 = <<"image">>
                       /\ Says("interpolating between videos")
                             <=> (t1 = <<"generation">> /\ "frame0" \in DOMAIN kf.d)
                       /\ Says("reverse extending to an existing video")
                             <=> (t1 = <<"generation">> /\ "frame0" \notin DOMAIN kf.d)

C13_Witness ==
    \E p \in Procs :
        /\ tool[p] = "create_generation"
        /\ pc[p] = "done"
        /\ HasKeyframes(parameters[p])
        /\ parameters[p]["keyframes"] = D([frame1 |-> GENERATION_FRAME])
        /\ pending[p] = Return(TEST_REPLY)
        /\ request[p].json.d["keyframes"] = D([frame1 |-> GENERATION_FRAME])
        /\ Contains(ret[p].s, <<"Created advanced generation (",
                                "reverse extending to an existing video", ") with ID: ">>)

(***************************************************************************)
(* list_generations                                                        *)
(***************************************************************************)
\* the value the gateway handed to the handler of a finished invocation
Returned(p) == pending[p].val
GotReply(p, t) == tool[p] = t /\ pc[p] = "done" /\ pending[p].kind = "return"

\* the four reply shapes and the sequence of generation objects each delivers
ShapeOf(v) ==
    IF v.t = "list" THEN "bare"
    ELSE IF v.t # "dict" THEN "none"
    ELSE IF "generations" \in DOMAIN v.d /\ v.d["generations"].t = "list" THEN "wrapped"
    ELSE IF "id" \in DOMAIN v.d /\ "state" \in DOMAIN v.d THEN "single"
    ELSE IF \E f \in {"data", "results", "items"} : f \in DOMAIN v.d /\ v.d[f].t = "list"
         THEN "alternate"
    ELSE "none"

Delivered(v) ==
    CASE ShapeOf(v) = "bare" -> v.l
      [] ShapeOf(v) = "wrapped" -> v.d["generations"].l
      [] ShapeOf(v) = "single" -> <<v>>
      [] ShapeOf(v) = "alternate" ->
            IF "data" \in DOMAIN v.d /\ v.d["data"].t = "list" THEN v.d["data"].l
            ELSE IF "results" \in DOMAIN v.d /\ v.d["results"].t = "list" THEN v.d["results"].l
            ELSE v.d["items"].l
      [] OTHER -> <<>>

\* a non-empty sequence of generation objects
IsGenerations(q) == q # <<>> /\ \A i \in 1..Len(q) : q[i].t = "dict"

\* the position of the first entry block of a listing, 0 when it has none
FirstEntry(text) ==
    IF \E i \in 1..Len(text) : text[i] = "ID: "
    THEN CHOOSE i \in 1..Len(text) : text[i] = "ID: " /\ \A j \in 1..(i - 1) : text[j] # "ID: "
    ELSE 0

EntryBlocks(text) ==
    IF FirstEntry(text) = 0 THEN <<>> ELSE SubSeq(text, FirstEntry(text), Len(text))
BeforeEntries(text) ==
    IF FirstEntry(text) = 0 THEN text ELSE SubSeq(text, 1, FirstEntry(text) - 1)

\* C14: whichever of the four shapes (mapping with a `generations` list, bare list, single
\* object with id and state, mapping with the list under data/results/items) delivers a
\* sequence of generation objects, list_generations returns the same entry blocks (ID, Type,
\* State, Created at, Prompt, URL) for it, in the order of the sequence; before the blocks
\* stands the heading, followed by the pagination line in the `generations` shape only.
C14_SameEntriesAnyShape ==
    \A p \in Procs :
        (GotReply(p, "list_generations") /\ ShapeOf(Returned(p)) # "none"
         /\ IsGenerations(Delivered(Returned(p)))) =>
            LET text == ret[p].s
                pre  == BeforeEntries(text)
            IN  /\ EntryBlocks(text) = JoinWith(NL, GenerationEntries(Delivered(Returned(p))))
                /\ Head(pre) = "Generations:"
                /\ IF ShapeOf(Returned(p)) = "wrapped"
                   THEN Len(pre) > 3 /\ pre[3] = "Showing "
                   ELSE pre = <<"Generations:", "\n">>

C14_Witness ==
    \E p \in Procs :
        /\ GotReply(p, "list_generations")
        /\ Returned(p) = GEN_A
        /\ ShapeOf(Returned(p)) = "single"
        /\ EntryBlocks(ret[p].s) = GenerationEntry(GEN_A.d)
        /\ Head(EntryBlocks(ret[p].s)) = "ID: "

(***************************************************************************)
(* get_credits                                                             *)
(***************************************************************************)
Shows(text, label, v) == Contains(text, <<label>> \o Str(v))
Mentions(text, label) == \E i \in 1..Len(text) : text[i] = label
CreditOr(r, k) == IF k \in DOMAIN r THEN r[k] ELSE S(<<"Unknown">>)

\* C15: for a mapping reply, get_credits shows only "Available Credits: <credit_balance>"
\* when the reply has a credit_balance key; otherwise it shows Available, Used and Total
\* Credits from credits_available, credits_used, credits_total, each "Unknown" when absent.
C15_CreditShapes ==
    \A p \in Procs :
        (GotReply(p, "get_credits") /\ Returned(p).t = "dict") =>
            LET r == Returned(p).d
                text == ret[p].s
            IN  IF "credit_balance" \in DOMAIN r
                THEN /\ Shows(text, "Available Credits: ", r["credit_balance"])
                     /\ ~Mentions(text, "Used Credits: ")
                     /\ ~Mentions(text, "Total Credits: ")
                     /\ Len(text) = 3 + Len(Str(r["credit_balance"]))
                ELSE /\ Shows(text, "Available Credits: ", CreditOr(r, "credits_available"))
                     /\ Shows(text, "Used Credits: ", CreditOr(r, "credits_used"))
                     /\ Shows(text, "Total Credits: ", CreditOr(r, "credits_total"))

C15_Witness ==
    \E p \in Procs :
        /\ GotReply(p, "get_credits")
        /\ Returned(p) = D([credits_available |-> N(1)])
        /\ Contains(ret[p].s, <<"Available Credits: ", "1">>)
        /\ Contains(ret[p].s, <<"Used Credits: ", "Unknown">>)
        /\ Contains(ret[p].s, <<"Total Credits: ", "Unknown">>)

(***************************************************************************)
(* get_camera_motions                                                      *)
(***************************************************************************)
MotionKeys == <<"motions", "camera_motions", "data", "items", "results">>

\* the reply resolves to an empty motion list
NoMotions(v) ==
    \/ v = D(EmptyDict)
    \/ v = L(<<>>)
    \/ /\ v.t = "dict"
       /\ LET held == SelectSeq(MotionKeys, LAMBDA f : f \in DOMAIN v.d /\ v.d[f].t = "list")
          IN  held # <<>> /\ v.d[Head(held)].l = <<>>

\* C17 (as claimed): whenever the motion list resolved from the reply is empty (an empty
\* reply, an empty bare list, or a mapping whose motions/camera_motions/data/items/results
\* key holds an empty list), get_camera_motions returns "No camera motions available".
C17_Claim ==
    \A p \in Procs :
        (GotReply(p, "get_camera_motions") /\ NoMotions(Returned(p))) =>
            ret[p].s = <<"No camera motions available">>

(***************************************************************************)
(* Invocations side by side                                                *)
(***************************************************************************)
\* C16: two get_generation invocations with the same generation_id whose gateway calls
\* received the same upstream replies have returned the same text, whatever the invocations
\* that ran before them, between them or next to them.
C16_GetGenerationDeterministic ==
    \A p, q \in Procs :
        (/\ tool[p] = "get_generation" /\ tool[q] = "get_generation"
         /\ pc[p] = "done" /\ pc[q] = "done"
         /\ Get(parameters[p], "generation_id", None) = Get(parameters[q], "generation_id", None)
         /\ attempts[p] = attempts[q]) =>
            ret[p] = ret[q]

C16_Witness ==
    \E p, q \in Procs :
        /\ p # q
        /\ tool[p] = "get_generation" /\ tool[q] = "get_generation"
        /\ pc[p] = "done" /\ pc[q] = "done"
        /\ parameters[p] = [generation_id |-> GEN_ID] /\ parameters[q] = parameters[p]
        /\ Len(attempts[p]) = 1 /\ attempts[p] = attempts[q]
        /\ attempts[p][1].resp.body.val = GEN_A
        /\ ret[p] = ret[q]
        /\ Contains(ret[p].s, <<"Generation ID: ", "gen-a">>)

RECURSIVE AloneLoop(_, _, _, _, _)
\* the handler run on its own from its gateway call on, fed the replies nets one by one
AloneLoop(t, prm, call, nets, rc) ==
    IF nets = <<>>
    THEN [pc |-> "awaiting", ret |-> None, calls |-> rc + 1, retry_count |-> rc]
    ELSE LET step == AfterGateway(t, prm, call.json, GatewayOutcome(Head(nets)), rc) IN
         IF step.next = "sleeping" THEN AloneLoop(t, prm, call, Tail(nets), rc + 1)
         ELSE [pc |-> step.next, ret |-> step.ret, calls |-> rc + 1, retry_count |-> rc]

\* what an invocation does when it is the only one: its request, its text, its counters
Alone(t, prm, key, env, nets) ==
    LET call == CallOf(t, prm)
        resolved == ResolveKey(key, env)
    IN  IF call.kind = "raise"
        THEN [request |-> NoRequest,
              run |-> [pc |-> "done", ret |-> Caught(t, prm, Raise(call.cls, call.msg)).ret,
                       calls |-> 0, retry_count |-> 0]]
        ELSE IF ~Truthy(resolved)
        THEN [request |-> NoRequest,
              run |-> [pc |-> "done",
                       ret |-> AfterGateway(t, prm, call.json,
                                            Raise("ValueError", MISSING_KEY), 0).ret,
                       calls |-> 0, retry_count |-> 0]]
        ELSE [request |-> HttpRequest(call, resolved),
              run |-> AloneLoop(t, prm, call, nets, 0)]

\* C18: with invocations interleaved at their awaits (the network call, the close of the
\* client, upscale's pause), each invocation's request, returned text, number of calls and
\* retry counter are those it has when run alone against the same upstream replies, and its
\* client is its own: open only while its own gateway call is in flight.
C18_Isolation ==
    \A p \in Procs :
        LET a == Alone(tool[p], parameters[p], api_key[p], env_key, attempts[p]) IN
        /\ pc[p] = "done" =>
              /\ ret[p] = a.run.ret
              /\ request[p] = a.request
              /\ calls[p] = a.run.calls
              /\ retry_count[p] = a.run.retry_count
        /\ pc[p] \in {"awaiting", "sleeping"} =>
              /\ request[p] = a.request
              /\ retry_count[p] = Len(attempts[p])
              /\ calls[p] = Len(attempts[p]) + (IF pc[p] = "awaiting" THEN 1 ELSE 0)
        /\ client[p] = "open" <=> pc[p] \in {"awaiting", "closing"}

C18_Witness ==
    \E p, q \in Procs :
        /\ p # q
        /\ tool[p] = "upscale_generation" /\ tool[q] = "upscale_generation"
        /\ pc[p] = "done" /\ calls[p] = 3 /\ retry_count[p] = 2
        /\ IsUpscaleSuccess(ret[p])
        /\ pc[q] = "sleeping" /\ retry_count[q] = 1 /\ calls[q] = 1
        /\ ret[p] = Alone(tool[p], parameters[p], api_key[p], env_key, attempts[p]).run.ret

(***************************************************************************)
(* upscale_generation and generate_image: the values sent                  *)
(***************************************************************************)
Resolutions == {S(<<"540p">>), S(<<"720p">>), S(<<"1080p">>), S(<<"4k">>)}
ImageModels == {S(<<"photon-1">>), S(<<"photon-flash-1">>)}

C20_ImageModelCoerced ==
    \A p \in Procs :
        (tool[p] = "generate_image" /\ pc[p] # "idle") =>
            LET given == Get(parameters[p], "model", None) IN
            /\ Truthy(Get(parameters[p], "prompt", None)) => data[p].kind = "call"
            /\ (data[p].kind = "call" /\ Truthy(ResolveKey(api_key[p], env_key)))
                  => calls[p] = 1
            /\ calls[p] >= 1 =>
                   /\ request[p].json.t = "dict"
                   /\ request[p].json.d["model"] \in ImageModels
                   /\ request[p].json.d["model"] =
                         (IF given \in ImageModels THEN given ELSE S(<<"photon-1">>))

C20_Witness ==
    \E p \in Procs :
        /\ tool[p] = "generate_image"
        /\ pc[p] = "done"
        /\ parameters[p] = [prompt |-> PROMPT, model |-> S(<<"ray-2">>)]
        /\ calls[p] = 1
        /\ request[p].json.d["model"] = S(<<"photon-1">>)
        /\ attempts[p][1].resp.status = 200

(***************************************************************************)
(* The gateway's return value                                              *)
(***************************************************************************)
\* the gateway call of p has come back from a response with a status below 400
GotSuccess(p) ==
    /\ pc[p] \in {"closing", "done"}
    /\ attempts[p] # <<>>
    /\ LastAttempt(p).k = "response"
    /\ LastAttempt(p).resp.status < 400

\* the body is handed on as text: the content type is not JSON and the text does not open
\* like JSON, or the decode that was tried failed
KeptAsText(resp) ==
    \/ resp.ctype # JSON_CTYPE /\ (resp.body.text = <<>> \/ Head(resp.body.text) \notin {"{", "["})
    \/ resp.body.form = "text"

\* the value the claim's three kinds give for a response
KindValue(resp) ==
    IF resp.body.form = "empty" THEN D(EmptyDict)
    ELSE IF KeptAsText(resp) THEN D([raw_response |-> S(resp.body.text)])
    ELSE resp.body.val

\* C21 (as claimed): for every response with status < 400 the gateway returns a mapping, of
\* one of three kinds chosen by the body: the empty mapping for an empty body,
\* {raw_response: text} for a non-JSON content type with a text that does not start with
\* "{" or "[" (and when the decode fails), otherwise the decoded JSON object.
C21_Claim ==
    \A p \in Procs :
        GotSuccess(p) =>
            /\ pending[p].kind = "return"
            /\ Returned(p) = KindValue(LastAttempt(p).resp)
            /\ Returned(p).t = "dict"

\* C21 (amended): for every response with status < 400 the gateway returns one of three
\* kinds chosen by the body: the empty mapping for an empty body, {raw_response: text} for a
\* non-JSON content type with a text that does not start with "{" or "[" (and when the
\* decode fails), otherwise the decoded JSON value, which is a mapping only when the body
\* holds a JSON object (a JSON list, or null, is returned as it is).
C21_ReturnKinds ==
    \A p \in Procs :
        GotSuccess(p) =>
            LET resp == LastAttempt(p).resp IN
            /\ pending[p].kind = "return"
            /\ Returned(p) = KindValue(resp)
            /\ (resp.body.form = "empty" \/ KeptAsText(resp)) => Returned(p).t = "dict"
            /\ Returned(p).t # "dict" => (resp.body.form = "json" /\ Returned(p) = resp.body.val)

C21_Witness ==
    \E p \in Procs :
        /\ GotSuccess(p)
        /\ LastAttempt(p).resp.ctype = TEXT_CTYPE
        /\ LastAttempt(p).resp.body = JsonBody(L(<<S(<<"static">>)>>))
        /\ pending[p] = Return(L(<<S(<<"static">>)>>))

(***************************************************************************)
(* create_generation: duration                                             *)
(***************************************************************************)
SupportedDurations == {S(<<"5s">>), S(<<"9s">>)}

\* C22: a duration other than "5s" or "9s" does not make create_generation reject the call:
\* with a prompt (and no keyframes to object to) a call is prepared, exactly one network call
\* is made once a credential resolves, and the body carries the duration as given.
C22_DurationNotRejected ==
    \A p \in Procs :
        (/\ tool[p] = "create_generation" /\ pc[p] # "idle"
         /\ Truthy(Get(parameters[p], "prompt", None))
         /\ "duration" \in DOMAIN parameters[p]
         /\ parameters[p]["duration"] # None
         /\ parameters[p]["duration"] \notin SupportedDurations
         /\ ~HasKeyframes(parameters[p])) =>
            /\ data[p].kind = "call"
            /\ data[p].json.d["duration"] = parameters[p]["duration"]
            /\ Truthy(ResolveKey(api_key[p], env_key)) =>
                  /\ calls[p] = 1
                  /\ request[p].json.d["duration"] = parameters[p]["duration"]
                  /\ pc[p] = "done" => Len(attempts[p]) = 1

C22_Witness ==
    \E p \in Procs :
        /\ tool[p] = "create_generation"
        /\ pc[p] = "done"
        /\ Get(parameters[p], "duration", None) = S(<<"10s">>)
        /\ calls[p] = 1
        /\ request[p].json.d["duration"] = S(<<"10s">>)
        /\ pending[p] = Return(TEST_REPLY)
        /\ Head(ret[p].s) = "Created text-to-video generation with ID: "

(***************************************************************************)
(* The state line                                                          *)
(***************************************************************************)
StateLabel(t) ==
    CASE t = "get_generation" -> "State: "
      [] t = "upscale_generation" -> "Status: "
      [] t = "add_audio" -> "Status: "
      [] t = "generate_image" -> "Image generation "

StateTools == {"get_generation", "upscale_generation", "add_audio", "generate_image"}

\* C23: in get_generation, upscale_generation, add_audio and generate_image the state of a
\* mapping reply is rendered as it is, whatever its value, and " (Reason: <failure_reason>)"
\* follows it exactly when the state is "failed" and failure_reason is non-empty; with any
\* other state the text holds no reason.
C23_StateVerbatim ==
    \A p \in Procs :
        (/\ tool[p] \in StateTools /\ pc[p] = "done" /\ pending[p].kind = "return"
         /\ Returned(p).t = "dict" /\ "state" \in DOMAIN Returned(p).d) =>
            LET r == Returned(p).d
                state == r["state"]
                reason == Get(r, "failure_reason", EMPTY)
                shown == state = S(<<"failed">>) /\ Truthy(reason)
            IN  /\ Contains(ret[p].s,
                            <<StateLabel(tool[p])>> \o Str(state)
                            \o (IF shown THEN <<" (Reason: ">> \o Str(reason) \o <<")">>
                                ELSE <<>>)
                            \o NL)
                /\ Mentions(ret[p].s, " (Reason: ") <=> shown

C23_Witness ==
    \E p \in Procs :
        /\ tool[p] = "add_audio" /\ pc[p] = "done" /\ pending[p].kind = "return"
        /\ Returned(p) = D([id |-> S(<<"gen-f">>), state |-> S(<<"failed">>),
                             failure_reason |-> S(<<"content moderation">>)])
        /\ Contains(ret[p].s, <<"Status: ", "failed", " (Reason: ", "content moderation", ")">>)

(***************************************************************************)
(* upscale_generation: the 400 rendering                                   *)
(***************************************************************************)
\* the detail a reply body carries, "Invalid request" when it carries none
EmbeddedDetail(resp) ==
    IF /\ resp.body.form = "json" /\ resp.body.val.t = "dict"
       /\ "detail" \in DOMAIN resp.body.val.d
       /\ resp.body.val.d["detail"].t = "str"
    THEN resp.body.val.d["detail"].s
    ELSE <<"Invalid request">>

UpscaleErrorHead(p) ==
    <<"Error upscaling generation ">> \o Str(Get(parameters[p], "generation_id", None))
    \o <<": ">>

\* C24 (as claimed): in upscale_generation a failure with HTTP 400 that does not carry
\* "same resolution as the original" is given exactly one network attempt (it is not
\* retried), and the text returned shows the detail embedded in the error, or
\* "Invalid request" when there is none, followed by the list of common issues.
C24_Claim ==
    \A p \in Procs :
        UpscaleValid(p) =>
            \A i \in 1..Len(attempts[p]) :
                (IsResponse(attempts[p][i], 400) /\ ~CarriesPhrase(attempts[p][i])) =>
                    /\ i = Len(attempts[p])
                    /\ pc[p] \in {"closing", "done"}
                    /\ pc[p] = "done" =>
                          ret[p].s = UpscaleErrorHead(p)
                                     \o EmbeddedDetail(attempts[p][i].resp) \o COMMON_ISSUES

(***************************************************************************)
(* delete_generation                                                       *)
(***************************************************************************)
IsDeleteSuccess(p) ==
    ret[p].s = <<"Generation ">> \o Str(Get(parameters[p], "generation_id", None))
               \o <<" deleted successfully">>

\* C26 (as claimed): delete_generation returns "Generation <id> deleted successfully" only
\* if the reply to the DELETE call had a status below 400; for every reply with status
\* >= 400, whatever its body (an empty body included), it returns the
\* "Error deleting generation <id>: ..." text.
C26_Claim ==
    \A p \in Procs :
        (tool[p] = "delete_generation" /\ pc[p] = "done") =>
            /\ IsDeleteSuccess(p) =>
                  /\ Len(attempts[p]) = 1
                  /\ LastAttempt(p).k = "response"
                  /\ LastAttempt(p).resp.status < 400
            /\ (Len(attempts[p]) = 1 /\ LastAttempt(p).k = "response"
                /\ LastAttempt(p).resp.status >= 400) =>
                  /\ Head(ret[p].s) = "Error deleting generation "
                  /\ ~IsDeleteSuccess(p)

(***************************************************************************)
(* upscale_generation: the same-resolution error                           *)
(***************************************************************************)
CannotUpscale(p) ==
    <<"Cannot upscale to ">> \o Str(Get(parameters[p], "resolution", None))
    \o ALREADY_AT_RESOLUTION

\* C27: a gateway error that carries "same resolution as the original" is replaced inside
\* the retry loop by a message without that phrase, so upscale_generation returns
\* "Error upscaling generation <id>: Cannot upscale to <resolution> because the original
\* generation is already at this resolution. ..."; no error the gateway raises brings the
\* handler to the rendering "The requested resolution (<resolution>) is the same as the
\* original".
C27_PhraseReplaced ==
    \A p \in Procs :
        (tool[p] = "upscale_generation" /\ pc[p] = "done") =>
            /\ ~Contains(ret[p].s, SAME_AS_ORIGINAL)
            /\ ~Mentions(ret[p].s, "The requested resolution (")
            /\ (pending[p].kind = "raise" /\ Contains(pending[p].msg, SAME_RESOLUTION)) =>
                  /\ ret[p].s = UpscaleErrorHead(p) \o CannotUpscale(p)
                  /\ ~Contains(CannotUpscale(p), SAME_RESOLUTION)

C27_Witness ==
    \E p \in Procs :
        /\ tool[p] = "upscale_generation" /\ pc[p] = "done"
        /\ Len(attempts[p]) = 2
        /\ IsResponse(attempts[p][1], 500)
        /\ IsResponse(attempts[p][2], 400)
        /\ pending[p].kind = "raise"
        /\ Contains(pending[p].msg, SAME_RESOLUTION)
        /\ ret[p].s = UpscaleErrorHead(p) \o CannotUpscale(p)

(***************************************************************************)
(* list_generations: pagination and precedence                             *)
(***************************************************************************)
\* the pagination line for a mapping reply with a `generations` list
PaginationLine(v) ==
    LET X == Len(v.d["generations"].l)
        Y == IF "count" \in DOMAIN v.d THEN v.d["count"] ELSE N(X)
    IN  <<"Showing ", ToString(X), " of ">> \o Str(Y) \o <<" generations">>
        \o (IF "has_more" \in DOMAIN v.d /\ Truthy(v.d["has_more"])
            THEN <<" (more available)">> ELSE <<>>)

\* C25: list_generations shows a pagination line only for a mapping reply with a
\* `generations` list; the line reads "Showing X of Y generations", X the number of elements
\* of the list (elements skipped as non-objects included), Y the reply's count or X when it
\* has none, and ends in " (more available)" exactly when has_more is truthy; bare-list,
\* single-object and alternate-keyed replies give no pagination line.
C25_PaginationLine ==
    \A p \in Procs :
        GotReply(p, "list_generations") =>
            LET v    == Returned(p)
                text == ret[p].s
                line == PaginationLine(v)
            IN  /\ Mentions(text, "Showing ") => ShapeOf(v) = "wrapped"
                /\ ShapeOf(v) \in {"bare", "single", "alternate"} =>
                      /\ ~Mentions(text, " generations")
                      /\ ~Mentions(text, " (more available)")
                /\ (ShapeOf(v) = "wrapped" /\ v.d["generations"].l # <<>>) =>
                      /\ Len(text) >= 2 + Len(line)
                      /\ SubSeq(text, 1, 2 + Len(line)) = <<"Generations:", "\n">> \o line
                      /\ Len(text) > 2 + Len(line) => text[3 + Len(line)] = "\n"
                      /\ Mentions(text, " (more available)")
                            <=> ("has_more" \in DOMAIN v.d /\ Truthy(v.d["has_more"]))

C25_Witness ==
    \E p \in Procs :
        /\ GotReply(p, "list_generations")
        /\ Returned(p) = D([generations |-> L(<<GEN_A, S(<<"junk">>)>>)])
        /\ SubSeq(ret[p].s, 1, 7)
             = <<"Generations:", "\n", "Showing ", "2", " of ", "2", " generations">>
        /\ EntryBlocks(ret[p].s) = GenerationEntry(GEN_A.d)

NotContained(v) ==
    <<"Response format from Luma API doesn't contain generations: ">> \o Str(v)

\* C29: for a non-empty mapping reply list_generations resolves the entries in a fixed order:
\* a list under `generations` wins; else the reply itself, when it has both id and state;
\* else the first of data, results, items whose value is a list, later keys not being
\* consulted even when that list is empty.  An empty `generations` list gives
\* "No generations found"; a fallback path without a non-empty list gives the
\* "doesn't contain generations" text.
C29_ListPrecedence ==
    \A p \in Procs :
        (GotReply(p, "list_generations") /\ Returned(p).t = "dict" /\ Truthy(Returned(p))) =>
            LET v    == Returned(p)
                r    == v.d
                text == ret[p].s
                IsList(k) == k \in DOMAIN r /\ r[k].t = "list"
                Listed(q) == IF q = <<>> THEN text = NotContained(v)
                             ELSE IsGenerations(q) =>
                                      EntryBlocks(text) = JoinWith(NL, GenerationEntries(q))
            IN  IF IsList("generations")
                THEN IF r["generations"].l = <<>> THEN text = <<"No generations found">>
                     ELSE /\ Mentions(text, "Showing ")
                          /\ IsGenerations(r["generations"].l) =>
                                EntryBlocks(text)
                                  = JoinWith(NL, GenerationEntries(r["generations"].l))
                ELSE IF "id" \in DOMAIN r /\ "state" \in DOMAIN r
                THEN EntryBlocks(text) = GenerationEntry(r)
                ELSE IF IsList("data") THEN Listed(r["data"].l)
                ELSE IF IsList("results") THEN Listed(r["results"].l)
                ELSE IF IsList("items") THEN Listed(r["items"].l)
                ELSE text = NotContained(v)

C29_Witness ==
    \E p \in Procs :
        /\ GotReply(p, "list_generations")
        /\ Returned(p) = D([data |-> L(<<>>), items |-> L(<<GEN_A>>)])
        /\ ret[p].s = NotContained(Returned(p))
        /\ ~Mentions(ret[p].s, "ID: ")

(***************************************************************************)
(* generate_image: the Model line                                          *)
(***************************************************************************)
\* C28 (as claimed): when the reply to generate_image is a mapping without a `model` field,
\* the "Model:" line of the output shows the model that was sent in the request body.
C28_Claim ==
    \A p \in Procs :
        (GotReply(p, "generate_image") /\ Returned(p).t = "dict"
         /\ "model" \notin DOMAIN Returned(p).d) =>
            Contains(ret[p].s, <<"\n", "Model: ">> \o Str(request[p].json.d["model"])
                               \o <<"\n">>)

(***************************************************************************)
(* create_generation: the keys of the request body                         *)
(***************************************************************************)
BodyFields ==
    {"prompt", "model", "resolution", "duration", "aspect_ratio", "loop", "callback_url",
     "keyframes"}

\* C30: whatever the arguments of create_generation, the keys of the request body sent are
\* among prompt, model, resolution, duration, aspect_ratio, loop, callback_url, keyframes and
\* include prompt and model; an argument under any other key is not forwarded, an optional
\* argument whose value is null is left out, and loop = false is forwarded as false.
C30_BodyKeys ==
    \A p \in Procs :
        (tool[p] = "create_generation" /\ calls[p] >= 1) =>
            LET prm  == parameters[p]
                keys == DOMAIN request[p].json.d
            IN  /\ keys \subseteq BodyFields
                /\ {"prompt", "model"} \subseteq keys
                /\ \A k \in DOMAIN prm \ BodyFields : k \notin keys
                /\ \A k \in OptionalFields \cap DOMAIN prm : prm[k] = None => k \notin keys
                /\ ("loop" \in DOMAIN prm /\ prm["loop"] = B(FALSE)) =>
                      /\ "loop" \in keys
                      /\ request[p].json.d["loop"] = B(FALSE)

C30_Witness ==
    \E p \in Procs :
        /\ tool[p] = "create_generation" /\ calls[p] >= 1
        /\ {"negative_prompt", "generation_id", "aspect_ratio"} \subseteq DOMAIN parameters[p]
        /\ parameters[p]["aspect_ratio"] = None
        /\ DOMAIN request[p].json.d = {"prompt", "model", "duration"}

====
